---- MODULE Spec2Model ----
(***************************************************************************)
(* Model of the deuce-client DeuceClient (deuceclient/client/deuce.py) and *)
(* of the Blocks collection (deuceclient/api/blocks.py).                   *)
(*                                                                         *)
(* The state is the caller's entity graph: the Vault objects that exist,   *)
(* the Project collection, the Block objects the caller holds, and the     *)
(* record of the last client call (its arguments, the request(s) it sent,  *)
(* the response it got, what it returned or raised).  Every client         *)
(* operation is one action; the Transport's answer is an input of the      *)
(* action.                                                                 *)
(***************************************************************************)
EXTENDS Integers, Sequences, FiniteSets, TLC

VARIABLES
    vaults,     \* the Vault objects, in the order of their construction
    project,    \* the caller's Project collection: vault id -> Vault object
    blockobjs,  \* the Block objects the caller constructed and holds
    auth,       \* the Authenticator: its current token and tenant id
    calls,      \* the number of calls made so far
    last,       \* the last call
    server      \* the block list a paging server holds, and its page size

vars == <<vaults, project, blockobjs, auth, calls, last, server>>

(***************************************************************************)
(* Bounds of the model.                                                    *)
(***************************************************************************)
\* Vault objects that can exist at once
MaxVaults == 1
\* Block objects the caller constructs and holds
MaxBlocks == 2
\* calls in one run of the full client (Spec)
MaxCalls == 2

(***************************************************************************)
(* Python values.                                                          *)
(***************************************************************************)
\* Python's None and a present value: an optional value is a sequence of
\* length 0 or 1, so that None never equals any text (also not "None").
None == <<>>
Some(x) == <<x>>
\* '{0:}'.format(x) of an optional text
Format(x) == IF x = None THEN "None" ELSE x[1]

\* A dict whose order does not matter is a function; the empty dict
EmptyDict == [k \in {} |-> None]
DictPut(d, k, v) == [x \in (DOMAIN d) \cup {k} |-> IF x = k THEN v ELSE d[x]]

\* A dict whose order is observed (File.offsets) is the list of its items in
\* insertion order
OKeys(d) == {d[i][1] : i \in 1..Len(d)}
OGet(d, k) == LET i == CHOOSE j \in 1..Len(d) : d[j][1] = k IN d[i][2]
OPut(d, k, v) ==
    IF k \in OKeys(d)
    THEN [i \in 1..Len(d) |-> IF d[i][1] = k THEN <<k, v>> ELSE d[i]]
    ELSE Append(d, <<k, v>>)

\* int(text): a text is the list of its characters
Digit(c) == CASE c = "0" -> 0 [] c = "1" -> 1 [] c = "2" -> 2 [] c = "3" -> 3
              [] c = "4" -> 4 [] c = "5" -> 5 [] c = "6" -> 6 [] c = "7" -> 7
              [] c = "8" -> 8 [] c = "9" -> 9
RECURSIVE ParseInt(_)
ParseInt(t) == IF t = <<>> THEN 0
               ELSE 10 * ParseInt(SubSeq(t, 1, Len(t) - 1)) + Digit(t[Len(t)])
\* int(h) if h else 0
IntOrZero(h) == IF h # <<>> THEN ParseInt(h) ELSE 0

\* '{0:}'.format(n) of an integer
IntText(n) == CASE n = 0 -> "0" [] n = 1 -> "1" [] n = 2 -> "2" [] n = -1 -> "-1"

\* A JSON scalar used as a file offset: a number or a text of digits
JsonInt(n) == [t |-> "int", v |-> n]
JsonStr(n) == [t |-> "str", v |-> n]
\* str(offset)
Str(x) == [t |-> "str", v |-> x.v]

(***************************************************************************)
(* Identifier grammars (deuceclient/common/validation.py) and the instance *)
(* rules (deuceclient/common/validation_instance.py).                      *)
(***************************************************************************)
\* the tenant the Authenticator reports
TenantId == "p1"
ValidVaultIds == {"v1"}
ValidBlockIds == {"b1", "b2"}
ValidStorageIds == {"s1"}
ValidFileIds == {"f1"}
\* what a caller may pass: the valid ids and one outside the grammar
VaultNames == ValidVaultIds \cup {"v!"}
BlockNames == ValidBlockIds \cup {"b!"}
StorageNames == ValidStorageIds \cup {"s!"}
FileNames == ValidFileIds \cup {"f!"}

VaultIdRule(v) == v \in ValidVaultIds
VaultIdRuleNoneOkay(m) == m = None \/ VaultIdRule(m[1])
\* one more id of the block id grammar, which only a server lists
ListedOnlyIds == {"b3"}
MetadataBlockIdRule(b) == b \in ValidBlockIds \cup ListedOnlyIds
MetadataBlockIdRuleNoneOkay(m) == m = None \/ MetadataBlockIdRule(m[1])
MetadataBlockIdIterableRule(ids) == \A i \in 1..Len(ids) : MetadataBlockIdRule(ids[i])
StorageBlockIdRule(s) == s \in ValidStorageIds
StorageBlockIdRuleNoneOkay(m) == m = None \/ StorageBlockIdRule(m[1])
FileIdRule(f) == f \in ValidFileIds
LimitRuleNoneOkay(l) == l = None \/ l[1] > 0
OffsetRule(o) == o.v >= 0
MetadataBlockIdOffsetIterableRuleNoneOkay(pairs) ==
    pairs = None
      \/ \A i \in 1..Len(pairs[1]) :
            MetadataBlockIdRule(pairs[1][i][1]) /\ OffsetRule(pairs[1][i][2])

\* An object argument as the caller passes it: an instance (inst > 0, the
\* object's place in vaults or blockobjs) or a text (inst = 0).
Inst(i) == [inst |-> i, name |-> ""]
Name(n) == [inst |-> 0, name |-> n]
NoArg == Name("")
VaultInstanceRule(a) == a.inst > 0
BlockInstanceRule(a) == a.inst > 0
ProjectInstanceRule(a) == a.inst > 0

(***************************************************************************)
(* Transport: responses.                                                   *)
(***************************************************************************)
StatusCodes == {200, 201, 204, 404, 500}
ResponseTexts == {"oops"}
Responses == [status_code : StatusCodes, text : ResponseTexts]
Brief(res) == [status_code |-> res.status_code, text |-> res.text]
\* of the response to a listing, the body and the continuation header too
BriefList(res) == [status_code |-> res.status_code, text |-> res.text,
                   body |-> res.body, next_batch |-> res.next_batch]
\* of a response whose body the call returns, the body too
\* of the response to CreateFile, the x-file-id and location headers too
BriefCreated(res) ==
    [status_code |-> res.status_code, text |-> res.text, file_id |-> res.file_id,
     location |-> res.location]
BriefHeaders(res) ==
    [status_code |-> res.status_code, text |-> res.text, headers |-> res.headers]
BriefBody(res) == [status_code |-> res.status_code, text |-> res.text, body |-> res.body]
NoResponse == [status_code |-> 0, text |-> ""]

\* The query of a continuation URL, as the list of its key=value pairs:
\* with a marker, with a marker after another parameter, with two markers,
\* and with no marker at all
QueryStrings(markers) ==
    {<<<<"marker", m>>>> : m \in markers}
      \cup {<<<<"limit", "1">>, <<"marker", m>>>> : m \in markers}
      \cup {<<<<"marker", m>>, <<"marker", "zz">>>> : m \in markers}
      \cup {<<<<"limit", "1">>>>}
\* The x-next-batch header: absent (None) or a URL (path and query)
NextBatchHeaders(path, markers) ==
    {None} \cup {Some([path |-> path, query |-> q]) : q \in QueryStrings(markers)}

\* urllib.parse.parse_qs(query)[key]: the values of the key, in the order of
\* the query
RECURSIVE parse_qs(_, _)
parse_qs(q, key) ==
    IF q = <<>> THEN <<>>
    ELSE (IF q[1][1] = key THEN <<q[1][2]>> ELSE <<>>) \o parse_qs(Tail(q), key)
\* urlparse(url)[4]
urlparse4(url) == url.query

(***************************************************************************)
(* Path builder (deuceclient/api/v1.py).                                   *)
(***************************************************************************)
get_base_path == <<"/v1.0">>
get_vault_base_path == get_base_path \o <<"/vaults">>
get_vault_path(vault_id) == get_vault_base_path \o <<"/", vault_id>>
get_blocks_path(vault_id) == get_vault_path(vault_id) \o <<"/blocks">>
get_block_path(vault_id, block_id) == get_blocks_path(vault_id) \o <<"/", block_id>>
get_storage_blocks_path(vault_id) == get_vault_path(vault_id) \o <<"/storage", "/blocks">>
get_storage_block_path(vault_id, storage_id) ==
    get_storage_blocks_path(vault_id) \o <<"/", storage_id>>
get_files_path(vault_id) == get_vault_path(vault_id) \o <<"/files">>
get_file_path(vault_id, file_id) == get_files_path(vault_id) \o <<"/", file_id>>
get_fileblocks_path(vault_id, file_id) == get_file_path(vault_id, file_id) \o <<"/blocks">>

\* A listing query that puts an ampersand between marker and limit whatever
\* the listing
ListingUrl_ampersand(url, marker, limit, sep) ==
    IF marker # None \/ limit # None
    THEN (url \o <<"?">>)
           \o (IF marker # None
               THEN <<"marker=", marker[1]>> \o (IF limit # None THEN <<"&">> ELSE <<>>)
               ELSE <<>>)
           \o (IF limit # None THEN <<"limit=", IntText(limit[1])>> ELSE <<>>)
    ELSE url

\* The query a listing appends to its path (GetBlockList, GetFileBlockList,
\* GetBlockStorageList): sep is the text put between marker and limit
ListingUrl(url, marker, limit, sep) ==
    IF marker # None \/ limit # None
    THEN (url \o <<"?">>)
           \o (IF marker # None
               THEN <<"marker=", marker[1]>> \o (IF limit # None THEN <<sep>> ELSE <<>>)
               ELSE <<>>)
           \o (IF limit # None THEN <<"limit=", IntText(limit[1])>> ELSE <<>>)
    ELSE url

(***************************************************************************)
(* Entity model.                                                           *)
(***************************************************************************)
VaultStatuses == {"unknown", "created", "deleted", "valid", "invalid"}

\* api_block.Block(project_id, vault_id, block_id=, storage_id=, data=,
\* block_type=)
Block(project_id, vault_id, block_id, storage_id, data, block_type) ==
    [project_id |-> project_id, vault_id |-> vault_id,
     block_id |-> block_id, storage_id |-> storage_id, data |-> data,
     ref_count |-> None, ref_modified |-> None, block_size |-> None,
     block_orphaned |-> None, block_type |-> block_type]
\* len(block)
BlockLen(b) == IF b.data = None THEN 0 ELSE Len(b.data[1])

\* The value held under a key of a Blocks collection: a Block the caller
\* holds too (ref > 0, its place in blockobjs) or a Block only the collection
\* holds (ref = 0, obj the Block)
Held(i) == [ref |-> i, obj |-> None]
Own(b) == [ref |-> 0, obj |-> Some(b)]
Deref(e) == IF e.ref > 0 THEN blockobjs[e.ref] ELSE e.obj[1]

\* Blocks.__init__
Blocks(project_id, vault_id) ==
    [items |-> EmptyDict, marker |-> None,
     project_id |-> project_id, vault_id |-> vault_id]
\* StorageBlocks(project_id, vault_id)
StorageBlocks(project_id, vault_id) == Blocks(project_id, vault_id)

\* What a collection would hold under a key set to a value that is no Block
NonBlock == [ref |-> 0, obj |-> None]
\* isinstance(val, Block), of a value a collection holds
IsBlock(e) == e.ref > 0 \/ e.obj # None

\* MetadataBlockType: the value is a Block (a value that is no Block is None
\* here)
MetadataBlockType(val) == val # None

\* A Blocks.__setitem__ that checks the key and never the value
Blocks_setitem_untyped(coll, key, val) ==
    IF ~MetadataBlockIdRule(key) THEN [err |-> "InvalidBlocks", coll |-> coll]
    ELSE [err |-> "",
          coll |-> [coll EXCEPT !.items =
                       DictPut(coll.items, key, IF val # None THEN val[1] ELSE NonBlock)]]

\* Blocks.__setitem__(key, val): val is a collection value, or None for a
\* value that is no Block.  The result is the collection, or the error.
\* A value that is no Block is refused as such, whatever the key.
Blocks_setitem(coll, key, val) ==
    IF ~MetadataBlockType(val) THEN [err |-> "TypeError", coll |-> coll]
    ELSE IF ~MetadataBlockIdRule(key) THEN [err |-> "InvalidBlocks", coll |-> coll]
    ELSE [err |-> "", coll |-> [coll EXCEPT !.items = DictPut(coll.items, key, val[1])]]
\* Blocks.marker = value
Blocks_set_marker(coll, value) ==
    IF ~MetadataBlockIdRuleNoneOkay(value) THEN [err |-> "InvalidBlocks", coll |-> coll]
    ELSE [err |-> "", coll |-> [coll EXCEPT !.marker = value]]
\* StorageBlocks.__setitem__ and StorageBlocks.marker = value
StorageBlocks_setitem(coll, key, val) ==
    IF ~MetadataBlockType(val) THEN [err |-> "TypeError", coll |-> coll]
    ELSE IF ~StorageBlockIdRule(key)
    THEN [err |-> "InvalidStorageBlocks", coll |-> coll]
    ELSE [err |-> "", coll |-> [coll EXCEPT !.items = DictPut(coll.items, key, val[1])]]
StorageBlocks_set_marker(coll, value) ==
    IF ~StorageBlockIdRuleNoneOkay(value)
    THEN [err |-> "InvalidStorageBlocks", coll |-> coll]
    ELSE [err |-> "", coll |-> [coll EXCEPT !.marker = value]]

\* api_file.File(project_id, vault_id, file_id, url)
File(project_id, vault_id, file_id, url) ==
    [project_id |-> project_id, vault_id |-> vault_id, file_id |-> file_id,
     url |-> url, offsets |-> <<>>]
\* len(file)
FileLen(f) == Len(f.offsets)
\* File.assign_block(block_id, offset)
File_assign_block(f, block_id, offset) ==
    [f EXCEPT !.offsets = OPut(f.offsets, Str(offset), block_id)]

\* api_vault.Vault(project_id, vault_id)
Vault(project_id, vault_id) ==
    [project_id |-> project_id, vault_id |-> vault_id,
     status |-> "unknown", statistics |-> None,
     blocks |-> Blocks(project_id, vault_id),
     storageblocks |-> StorageBlocks(project_id, vault_id),
     files |-> EmptyDict]

\* api_project.Project(project_id)
Project(project_id) == [items |-> EmptyDict, marker |-> None, project_id |-> project_id]
\* Project.marker = value
Project_set_marker(proj, value) ==
    IF ~VaultIdRuleNoneOkay(value) THEN [err |-> "InvalidVault", coll |-> proj]
    ELSE [err |-> "", coll |-> [proj EXCEPT !.marker = value]]

\* vault.status = value
SetStatus(vs, i, value) == [vs EXCEPT ![i].status = value]

(***************************************************************************)
(* The record of a call.                                                   *)
(***************************************************************************)
NoResult == [kind |-> "none", b |-> FALSE, ref |-> 0, ids |-> <<>>, flags |-> <<>>,
             marker |-> None]
BoolResult(b) == [NoResult EXCEPT !.kind = "bool", !.b = b]
VaultResult(i) == [NoResult EXCEPT !.kind = "vault", !.ref = i]
BlockResult(i) == [NoResult EXCEPT !.kind = "block", !.ref = i]
IdsResult(ids) == [NoResult EXCEPT !.kind = "ids", !.ids = ids]
IdsMarkerResult(ids, m) == [NoResult EXCEPT !.kind = "ids+marker", !.ids = ids, !.marker = m]
FileIdResult(f) == [NoResult EXCEPT !.kind = "file_id", !.ids = <<f>>]

\* The arguments of a call; a call has those its operation declares
NoArgs == [vault |-> NoArg, block |-> NoArg, file_id |-> "", marker |-> None,
           limit |-> None, ids |-> <<>>, pairs |-> None, items |-> <<>>]
VArgs(v) == [NoArgs EXCEPT !.vault = v]
VBArgs(v, b) == [NoArgs EXCEPT !.vault = v, !.block = b]
VFArgs(v, f) == [NoArgs EXCEPT !.vault = v, !.file_id = f]

NoError == [code |-> None, text |-> None, details |-> None]

\* requests.<verb>(self.Uri, headers=, data=): what the Transport is handed
Request(verb, uri, headers, body) ==
    [verb |-> verb, uri |-> uri, headers |-> headers, body |-> body]
NoBody == <<>>

\* A client that keeps the headers of its construction
update_headers_cached == [token |-> "t1", project_id |-> auth.tenant]

\* DeuceClient.__update_headers and self.Headers
update_headers == [token |-> auth.token, project_id |-> auth.tenant]
\* DeuceClient.project_id
project_id == auth.tenant

\* A call that returned
Returned(op, args, reqs, res, result) ==
    [op |-> op, args |-> args, reqs |-> reqs, resp |-> res,
     outcome |-> "return", result |-> result, err |-> NoError]
\* A call that raised exc
Raised(op, args, reqs, res, exc, err) ==
    [op |-> op, args |-> args, reqs |-> reqs, resp |-> res,
     outcome |-> exc, result |-> NoResult, err |-> err]
\* A call refused by @validate: nothing was sent
Invalid(op, args, exc) == Raised(op, args, <<>>, NoResponse, exc, NoError)
\* raise RuntimeError('... Error ({0:}): {1:}'.format(res.status_code, res.text))
OperationFailed(op, args, reqs, res) ==
    Raised(op, args, reqs, Brief(res), "RuntimeError",
           [code |-> Some(res.status_code), text |-> Some(res.text), details |-> None])

(***************************************************************************)
(* The caller.                                                             *)
(***************************************************************************)
\* The caller constructs a Vault
NewVault(vault_id) ==
    /\ Len(vaults) < MaxVaults
    /\ vaults' = Append(vaults, Vault(TenantId, vault_id))
    /\ last' = Returned("Vault", VArgs(Name(vault_id)), <<>>, NoResponse,
                        VaultResult(Len(vaults) + 1))
    /\ UNCHANGED <<project, blockobjs, auth>>

\* The Authenticator comes to a new token (authenticator.AuthToken is read at
\* every call)
RenewToken ==
    /\ auth.token = "t1"
    /\ auth' = [auth EXCEPT !.token = "t2"]
    /\ last' = Returned("Authenticator", NoArgs, <<>>, NoResponse, NoResult)
    /\ UNCHANGED <<vaults, project, blockobjs>>

\* The caller runs project[vault.vault_id] = vault
ProjectAdd(v) ==
    /\ project' = [project EXCEPT !.items = DictPut(@, vaults[v].vault_id, v)]
    /\ last' = Returned("Project.__setitem__", VArgs(Inst(v)), <<>>, NoResponse, NoResult)
    /\ UNCHANGED <<vaults, blockobjs, auth>>

(***************************************************************************)
(* DeuceClient: vault operations.                                          *)
(***************************************************************************)
\* A ListVaults that marks a listed vault valid when it is a key already
RECURSIVE AddListedVaults_refreshing(_, _, _)
AddListedVaults_refreshing(vs, proj, body) ==
    IF body = <<>> THEN [vaults |-> vs, project |-> proj]
    ELSE IF body[1] \in DOMAIN proj.items
         THEN AddListedVaults_refreshing(SetStatus(vs, proj.items[body[1]], "valid"),
                                         proj, Tail(body))
         ELSE AddListedVaults_refreshing(
                Append(vs, [Vault(proj.project_id, body[1]) EXCEPT !.status = "valid"]),
                [proj EXCEPT !.items = DictPut(proj.items, body[1], Len(vs) + 1)],
                Tail(body))

\* ListVaults lines 113-118: a listed vault that is no key of the project is
\* added as a new Vault with status valid; one that is a key is left alone
RECURSIVE AddListedVaults(_, _, _)
AddListedVaults(vs, proj, body) ==
    IF body = <<>> THEN [vaults |-> vs, project |-> proj]
    ELSE IF body[1] \in DOMAIN proj.items
         THEN AddListedVaults(vs, proj, Tail(body))
         ELSE AddListedVaults(
                Append(vs, [Vault(proj.project_id, body[1]) EXCEPT !.status = "valid"]),
                [proj EXCEPT !.items = DictPut(proj.items, body[1], Len(vs) + 1)],
                Tail(body))

\* ListVaults lines 119-125: the project after the marker was set from the
\* response, or the error of the attempt
ListVaultsMarker(proj, res) ==
    IF res.next_batch # None
    THEN LET qs == parse_qs(urlparse4(res.next_batch[1]), "marker")
         IN IF qs = <<>> THEN [err |-> "KeyError", coll |-> proj]
            ELSE Project_set_marker(proj, Some(qs[1]))
    ELSE Project_set_marker(proj, None)

ListVaults(proj, marker, res) ==
    LET args == [VArgs(proj) EXCEPT !.marker = marker]
    IN
    IF ~ProjectInstanceRule(proj) \/ ~VaultIdRuleNoneOkay(marker)
    THEN /\ last' = Invalid("ListVaults", args,
                            IF ~ProjectInstanceRule(proj) THEN "InvalidProjectInstance"
                            ELSE "InvalidVault")
         /\ UNCHANGED <<vaults, project, blockobjs, auth>>
    ELSE LET path == get_vault_base_path
             uri == IF marker # None THEN path \o <<"?marker=", marker[1]>> ELSE path
             req == Request("GET", uri, update_headers, NoBody)
             added == AddListedVaults(vaults, project, res.body)
             marked == ListVaultsMarker(added.project, res)
         IN IF res.status_code = 200
            THEN /\ Len(added.vaults) <= MaxVaults
                 /\ vaults' = added.vaults
                 /\ project' = marked.coll
                 /\ last' = IF marked.err = ""
                            THEN Returned("ListVaults", args, <<req>>, BriefList(res),
                                          BoolResult(TRUE))
                            ELSE Raised("ListVaults", args, <<req>>, BriefList(res),
                                        marked.err, NoError)
                 /\ UNCHANGED <<blockobjs, auth>>
            ELSE /\ last' = OperationFailed("ListVaults", args, <<req>>, res)
                 /\ UNCHANGED <<vaults, project, blockobjs, auth>>

\* A CreateVault that leaves the new Vault's status as constructed
CreatedVault_unmarked(vault_name) ==
    Vault(project_id, vault_name)

\* CreateVault lines 151-155: the Vault returned on 201
CreatedVault(vault_name) ==
    [Vault(project_id, vault_name) EXCEPT !.status = "created"]

CreateVault(vault_name, res) ==
    LET args == VArgs(Name(vault_name))
    IN
    IF ~VaultIdRule(vault_name)
    THEN /\ last' = Invalid("CreateVault", args, "InvalidVault")
         /\ UNCHANGED <<vaults, project, blockobjs, auth>>
    ELSE LET req == Request("PUT", get_vault_path(vault_name), update_headers, NoBody)
         IN IF res.status_code = 201
            THEN /\ Len(vaults) < MaxVaults
                 /\ vaults' = Append(vaults, CreatedVault(vault_name))
                 /\ last' = Returned("CreateVault", args, <<req>>, Brief(res),
                                     VaultResult(Len(vaults) + 1))
                 /\ UNCHANGED <<project, blockobjs, auth>>
            ELSE /\ last' = OperationFailed("CreateVault", args, <<req>>, res)
                 /\ UNCHANGED <<vaults, project, blockobjs, auth>>

\* A VaultExists that marks the Vault invalid on every answer but 204
VaultExistsStatus_strict(old, res) ==
    IF res.status_code = 204 THEN "valid" ELSE "invalid"

\* VaultExists lines 227-238: the status a Vault argument is given by the
\* response; the status it had when the response gives none
VaultExistsStatus(old, res) ==
    IF res.status_code = 204 THEN "valid"
    ELSE IF res.status_code = 404 THEN "invalid"
    ELSE old

\* vault is a Vault object or a vault id text: VaultExists declares no
\* validation
VaultExists(vault, res) ==
    LET isVault == vault.inst > 0
        vault_id == IF isVault THEN vaults[vault.inst].vault_id ELSE vault.name
        req == Request("HEAD", get_vault_path(vault_id), update_headers, NoBody)
    IN /\ vaults' = IF isVault
                    THEN SetStatus(vaults, vault.inst,
                                   VaultExistsStatus(vaults[vault.inst].status, res))
                    ELSE vaults
       /\ last' = IF res.status_code = 204
                  THEN Returned("VaultExists", VArgs(vault), <<req>>, Brief(res),
                                BoolResult(TRUE))
                  ELSE IF res.status_code = 404
                  THEN Returned("VaultExists", VArgs(vault), <<req>>, Brief(res),
                                BoolResult(FALSE))
                  ELSE OperationFailed("VaultExists", VArgs(vault), <<req>>, res)
       /\ UNCHANGED <<project, blockobjs, auth>>

\* GetVault calls VaultExists with the vault name
GetVault(vault_name, res) ==
    LET args == VArgs(Name(vault_name))
    IN
    IF ~VaultIdRule(vault_name)
    THEN /\ last' = Invalid("GetVault", args, "InvalidVault")
         /\ UNCHANGED <<vaults, project, blockobjs, auth>>
    ELSE LET req == Request("HEAD", get_vault_path(vault_name), update_headers, NoBody)
         IN IF res.status_code = 204
            THEN /\ Len(vaults) < MaxVaults
                 /\ vaults' = Append(vaults,
                        [Vault(project_id, vault_name) EXCEPT !.status = "valid"])
                 /\ last' = Returned("GetVault", args, <<req>>, Brief(res),
                                     VaultResult(Len(vaults) + 1))
                 /\ UNCHANGED <<project, blockobjs, auth>>
            ELSE IF res.status_code = 404
            THEN \* raise RuntimeError('Failed to find a Vault with the name ...')
                 /\ last' = Raised("GetVault", args, <<req>>, Brief(res),
                                   "RuntimeError", NoError)
                 /\ UNCHANGED <<vaults, project, blockobjs, auth>>
            ELSE \* the failure of the inner VaultExists goes to the caller
                 /\ last' = OperationFailed("GetVault", args, <<req>>, res)
                 /\ UNCHANGED <<vaults, project, blockobjs, auth>>

\* A DeleteVault that marks the Vault deleted before it reads the response
DeleteVaultStatus_eager(old, res) == "deleted"

\* DeleteVault lines 197-203: the status of the Vault after the response
DeleteVaultStatus(old, res) == IF res.status_code = 204 THEN "deleted" ELSE old

DeleteVault(vault, res) ==
    IF ~VaultInstanceRule(vault)
    THEN /\ last' = Invalid("DeleteVault", VArgs(vault), "InvalidVaultInstance")
         /\ UNCHANGED <<vaults, project, blockobjs, auth>>
    ELSE LET req == Request("DELETE", get_vault_path(vaults[vault.inst].vault_id),
                            update_headers, NoBody)
         IN /\ vaults' = SetStatus(vaults, vault.inst,
                                   DeleteVaultStatus(vaults[vault.inst].status, res))
            /\ last' = IF res.status_code = 204
                       THEN Returned("DeleteVault", VArgs(vault), <<req>>, Brief(res),
                                     BoolResult(TRUE))
                       ELSE OperationFailed("DeleteVault", VArgs(vault), <<req>>, res)
            /\ UNCHANGED <<project, blockobjs, auth>>

\* GetVaultStatistics lines 259-265: the statistics of the Vault after the
\* response, body the res.json() of the response
VaultStatistics(old, body, res) == IF res.status_code = 200 THEN Some(body) ELSE old

GetVaultStatistics(vault, body, res) ==
    IF ~VaultInstanceRule(vault)
    THEN /\ last' = Invalid("GetVaultStatistics", VArgs(vault), "InvalidVaultInstance")
         /\ UNCHANGED <<vaults, project, blockobjs, auth>>
    ELSE LET req == Request("GET", get_vault_path(vaults[vault.inst].vault_id),
                            update_headers, NoBody)
         IN /\ vaults' = [vaults EXCEPT ![vault.inst].statistics =
                              VaultStatistics(@, body, res)]
            /\ last' = IF res.status_code = 200
                       THEN Returned("GetVaultStatistics", VArgs(vault), <<req>>,
                                     Brief(res), BoolResult(TRUE))
                       ELSE OperationFailed("GetVaultStatistics", VArgs(vault),
                                            <<req>>, res)
            /\ UNCHANGED <<project, blockobjs, auth>>

(***************************************************************************)
(* The caller: Block objects and the Blocks collection.                    *)
(***************************************************************************)
\* the bytes of a block
Contents == {<<1, 2>>}

\* The caller constructs a metadata Block
NewBlock(block_id, data) ==
    /\ Len(blockobjs) < MaxBlocks
    /\ blockobjs' = Append(blockobjs,
            Block(TenantId, "v1", Some(block_id), None, data, "metadata"))
    /\ last' = Returned("Block", NoArgs, <<>>, NoResponse,
                        BlockResult(Len(blockobjs) + 1))
    /\ UNCHANGED <<vaults, project, auth>>

\* The caller constructs a storage Block
NewStorageBlock(storage_id) ==
    /\ Len(blockobjs) < MaxBlocks
    /\ blockobjs' = Append(blockobjs,
            Block(TenantId, "v1", None, Some(storage_id), None, "storage"))
    /\ last' = Returned("Block", NoArgs, <<>>, NoResponse,
                        BlockResult(Len(blockobjs) + 1))
    /\ UNCHANGED <<vaults, project, auth>>

\* Blocks.add(block): block is a Block the caller holds, or no Block
Blocks_add(coll, block) ==
    IF BlockInstanceRule(block)
    THEN IF blockobjs[block.inst].block_id = None
         THEN [err |-> "InvalidBlocks", coll |-> coll]
         ELSE Blocks_setitem(coll, blockobjs[block.inst].block_id[1],
                             Some(Held(block.inst)))
    ELSE [err |-> "TypeError", coll |-> coll]

\* The caller runs vault.blocks.add(block)
BlocksAdd(v, block) ==
    LET r == Blocks_add(vaults[v].blocks, block)
    IN /\ vaults' = [vaults EXCEPT ![v].blocks = r.coll]
       /\ last' = IF r.err = ""
                  THEN Returned("Blocks.add", VBArgs(Inst(v), block), <<>>,
                                NoResponse, NoResult)
                  ELSE Raised("Blocks.add", VBArgs(Inst(v), block), <<>>,
                              NoResponse, r.err, NoError)
       /\ UNCHANGED <<project, blockobjs, auth>>

\* The value a caller sets: a Block the caller holds, or no Block
SetValue(val) == IF BlockInstanceRule(val) THEN Some(Held(val.inst)) ELSE None

\* The caller runs vault.blocks[key] = val
BlocksSetItem(v, key, val) ==
    LET r == Blocks_setitem(vaults[v].blocks, key, SetValue(val))
        args == [VBArgs(Inst(v), val) EXCEPT !.ids = <<key>>]
    IN /\ vaults' = [vaults EXCEPT ![v].blocks = r.coll]
       /\ last' = IF r.err = ""
                  THEN Returned("Blocks.__setitem__", args, <<>>, NoResponse, NoResult)
                  ELSE Raised("Blocks.__setitem__", args, <<>>, NoResponse, r.err, NoError)
       /\ UNCHANGED <<project, blockobjs, auth>>

\* A Blocks.update that stores nothing when one of the items fails
RECURSIVE Blocks_update_atomic(_, _)
Blocks_update_atomic(coll, items) ==
    IF items = <<>> THEN [err |-> "", coll |-> coll]
    ELSE LET r == Blocks_setitem(coll, items[1][1], SetValue(items[1][2]))
         IN IF r.err # "" THEN r
            ELSE LET rest == Blocks_update_atomic(r.coll, Tail(items))
                 IN IF rest.err # "" THEN [err |-> rest.err, coll |-> coll] ELSE rest

\* Blocks.update(items): every item is set in the order of the dict, up to
\* the first that fails
RECURSIVE Blocks_update(_, _)
Blocks_update(coll, items) ==
    IF items = <<>> THEN [err |-> "", coll |-> coll]
    ELSE LET r == Blocks_setitem(coll, items[1][1], SetValue(items[1][2]))
         IN IF r.err # "" THEN r ELSE Blocks_update(r.coll, Tail(items))

\* The caller runs vault.blocks.update(items)
BlocksUpdate(v, items) ==
    LET r == Blocks_update(vaults[v].blocks, items)
        args == [VArgs(Inst(v)) EXCEPT !.items = items]
    IN /\ vaults' = [vaults EXCEPT ![v].blocks = r.coll]
       /\ last' = IF r.err = ""
                  THEN Returned("Blocks.update", args, <<>>, NoResponse, NoResult)
                  ELSE Raised("Blocks.update", args, <<>>, NoResponse, r.err, NoError)
       /\ UNCHANGED <<project, blockobjs, auth>>

\* StorageBlocks.add(block)
StorageBlocks_add(coll, block) ==
    IF BlockInstanceRule(block)
    THEN IF blockobjs[block.inst].storage_id = None
         THEN [err |-> "InvalidStorageBlocks", coll |-> coll]
         ELSE StorageBlocks_setitem(coll, blockobjs[block.inst].storage_id[1],
                                    Some(Held(block.inst)))
    ELSE [err |-> "TypeError", coll |-> coll]

\* The caller runs vault.storageblocks.add(block)
StorageBlocksAdd(v, block) ==
    LET r == StorageBlocks_add(vaults[v].storageblocks, block)
    IN /\ vaults' = [vaults EXCEPT ![v].storageblocks = r.coll]
       /\ last' = IF r.err = ""
                  THEN Returned("StorageBlocks.add", VBArgs(Inst(v), block), <<>>,
                                NoResponse, NoResult)
                  ELSE Raised("StorageBlocks.add", VBArgs(Inst(v), block), <<>>,
                              NoResponse, r.err, NoError)
       /\ UNCHANGED <<project, blockobjs, auth>>

(***************************************************************************)
(* DeuceClient: block operations.                                          *)
(***************************************************************************)
\* A block operation declared with the block id rule in place of the
\* instance rule
VaultBlockRule_misdeclared(vault, block) ==
    IF ~VaultInstanceRule(vault) THEN "InvalidVaultInstance"
    ELSE IF ~BlockInstanceRule(block) THEN "InvalidBlocks"
    ELSE ""

\* @validate(vault=VaultInstanceRule, block=BlockInstanceRule): the error
\* raised, "" when the arguments pass
VaultBlockRule(vault, block) ==
    IF ~VaultInstanceRule(vault) THEN "InvalidVaultInstance"
    ELSE IF ~BlockInstanceRule(block) THEN "InvalidBlockInstance"
    ELSE ""

\* The response headers a block operation reads
BlockHeaders ==
    {[ref_modified |-> <<>>, ref_count |-> <<>>, block_size |-> <<>>,
      storage_id |-> "None", block_id |-> "None", orphaned |-> "True"],
     [ref_modified |-> <<"7">>, ref_count |-> <<"2">>, block_size |-> <<"4", "8">>,
      storage_id |-> "s1", block_id |-> "b2", orphaned |-> "false"]}
BlockResponses ==
    [status_code : StatusCodes, text : ResponseTexts, headers : BlockHeaders,
     content : Contents]

\* the marker and limit a caller passes to a listing
Limits == {None, Some(1), Some(0)}
\* the bodies of a block listing: the listed ids, in the body's order
ListBodies(ids) == {<<>>} \cup {<<a>> : a \in ids}
                     \cup {<<a, b>> : a, b \in ids}
ListResponses(path, ids, markers) ==
    {[status_code |-> 200, text |-> t, body |-> b, next_batch |-> h] :
        t \in ResponseTexts, b \in ListBodies(ids), h \in NextBatchHeaders(path, markers)}
      \cup {[status_code |-> c, text |-> t, body |-> <<>>, next_batch |-> None] :
              c \in StatusCodes \ {200}, t \in ResponseTexts}

\* A GetBlockList that makes every listed Block under the first valid id
ListedBlock_misnamed(coll, block_entry) ==
    Block(coll.project_id, coll.vault_id, Some("b1"), None, None, "metadata")

\* GetBlockList lines 307-309: the Block made for a listed id
ListedBlock(coll, block_entry) ==
    Block(coll.project_id, coll.vault_id, Some(block_entry), None, None, "metadata")

\* GetBlockList lines 305-310: every listed id is set to a new Block
RECURSIVE ListedBlocks(_, _)
ListedBlocks(coll, body) ==
    IF body = <<>> THEN [err |-> "", coll |-> coll]
    ELSE LET r == Blocks_setitem(coll, body[1], Some(Own(ListedBlock(coll, body[1]))))
         IN IF r.err # "" THEN r ELSE ListedBlocks(r.coll, Tail(body))

\* A GetBlockList that leaves the marker alone when the response has no
\* continuation header
GetBlockListMarker_sticky(coll, res) ==
    IF res.next_batch # None
    THEN LET qs == parse_qs(urlparse4(res.next_batch[1]), "marker")
         IN IF qs = <<>> THEN [err |-> "KeyError", coll |-> coll]
            ELSE Blocks_set_marker(coll, Some(qs[1]))
    ELSE [err |-> "", coll |-> coll]

\* A GetBlockList that clears the marker whatever the response
GetBlockListMarker_cleared(coll, res) == Blocks_set_marker(coll, None)

\* GetBlockList lines 312-318: the collection after the marker was set from
\* the response, or the error of the attempt
GetBlockListMarker(coll, res) ==
    IF res.next_batch # None
    THEN LET qs == parse_qs(urlparse4(res.next_batch[1]), "marker")
         IN IF qs = <<>> THEN [err |-> "KeyError", coll |-> coll]
            ELSE Blocks_set_marker(coll, Some(qs[1]))
    ELSE Blocks_set_marker(coll, None)

GetBlockList(vault, marker, limit, res) ==
    LET args == [VArgs(vault) EXCEPT !.marker = marker, !.limit = limit]
    IN
    IF ~VaultInstanceRule(vault) \/ ~MetadataBlockIdRuleNoneOkay(marker)
         \/ ~LimitRuleNoneOkay(limit)
    THEN /\ last' = Invalid("GetBlockList", args,
                            IF ~VaultInstanceRule(vault) THEN "InvalidVaultInstance"
                            ELSE IF ~MetadataBlockIdRuleNoneOkay(marker)
                            THEN "InvalidBlocks" ELSE "ParameterConstraintError")
         /\ UNCHANGED <<vaults, project, blockobjs, auth>>
    ELSE LET v == vault.inst
             url == ListingUrl(get_blocks_path(vaults[v].vault_id), marker, limit, ",")
             req == Request("GET", url, update_headers, NoBody)
             listed == ListedBlocks(vaults[v].blocks, res.body)
             marked == IF listed.err # "" THEN listed
                       ELSE GetBlockListMarker(listed.coll, res)
         IN IF res.status_code = 200
            THEN /\ vaults' = [vaults EXCEPT ![v].blocks = marked.coll]
                 /\ last' = IF marked.err = ""
                            THEN Returned("GetBlockList", args, <<req>>, BriefList(res),
                                          IdsResult(res.body))
                            ELSE Raised("GetBlockList", args, <<req>>, BriefList(res),
                                        marked.err, NoError)
                 /\ UNCHANGED <<project, blockobjs, auth>>
            ELSE /\ last' = OperationFailed("GetBlockList", args, <<req>>, res)
                 /\ UNCHANGED <<vaults, project, blockobjs, auth>>

\* A HeadBlock that takes the block id too from the response (the storage
\* id the service reports)
HeadBlockFields_rekeyed(b, res) ==
    [b EXCEPT !.ref_modified = Some(IntOrZero(res.headers.ref_modified)),
              !.ref_count = Some(IntOrZero(res.headers.ref_count)),
              !.block_size = Some(IntOrZero(res.headers.block_size)),
              !.storage_id = IF res.headers.storage_id = "None" THEN None
                             ELSE Some(res.headers.storage_id),
              !.block_id = Some(res.headers.storage_id),
              !.block_orphaned = Some(FALSE)]

\* A HeadBlock that reads the reference count and the modification time
\* from each other's header
HeadBlockFields_swapped(b, res) ==
    [b EXCEPT !.ref_modified = Some(IntOrZero(res.headers.ref_count)),
              !.ref_count = Some(IntOrZero(res.headers.ref_modified)),
              !.block_size = Some(IntOrZero(res.headers.block_size)),
              !.storage_id = IF res.headers.storage_id = "None" THEN None
                             ELSE Some(res.headers.storage_id),
              !.block_orphaned = Some(FALSE)]

\* HeadBlock lines 346-361: the Block after a 204
HeadBlockFields(b, res) ==
    [b EXCEPT !.ref_modified = Some(IntOrZero(res.headers.ref_modified)),
              !.ref_count = Some(IntOrZero(res.headers.ref_count)),
              !.block_size = Some(IntOrZero(res.headers.block_size)),
              !.storage_id = IF res.headers.storage_id = "None" THEN None
                             ELSE Some(res.headers.storage_id),
              !.block_orphaned = Some(FALSE)]

\* the private header copy of HeadBlock and UploadBlock
OctetHeaders(length) ==
    [token |-> auth.token, project_id |-> auth.tenant,
     content_type |-> "application/octet-stream", content_length |-> length]

HeadBlock(vault, block, res) ==
    LET args == VBArgs(vault, block)
    IN
    IF VaultBlockRule(vault, block) # ""
    THEN /\ last' = Invalid("HeadBlock", args, VaultBlockRule(vault, block))
         /\ UNCHANGED <<vaults, project, blockobjs, auth>>
    ELSE LET b == blockobjs[block.inst]
             url == get_block_path(vaults[vault.inst].vault_id, Format(b.block_id))
             req == Request("HEAD", url, OctetHeaders(None), NoBody)
         IN IF res.status_code = 204
            THEN /\ blockobjs' = [blockobjs EXCEPT ![block.inst] = HeadBlockFields(@, res)]
                 /\ last' = Returned("HeadBlock", args, <<req>>, BriefHeaders(res),
                                     BlockResult(block.inst))
                 /\ UNCHANGED <<vaults, project, auth>>
            ELSE /\ last' = OperationFailed("HeadBlock", args, <<req>>, res)
                 /\ UNCHANGED <<vaults, project, blockobjs, auth>>

UploadBlock(vault, block, res) ==
    LET args == VBArgs(vault, block)
    IN
    IF VaultBlockRule(vault, block) # ""
    THEN /\ last' = Invalid("UploadBlock", args, VaultBlockRule(vault, block))
         /\ UNCHANGED <<vaults, project, blockobjs, auth>>
    ELSE LET b == blockobjs[block.inst]
             url == get_block_path(vaults[vault.inst].vault_id, Format(b.block_id))
             req == Request("PUT", url, OctetHeaders(Some(BlockLen(b))), b.data)
         IN /\ last' = IF res.status_code = 201
                       THEN Returned("UploadBlock", args, <<req>>, Brief(res),
                                     BoolResult(TRUE))
                       ELSE OperationFailed("UploadBlock", args, <<req>>, res)
            /\ UNCHANGED <<vaults, project, blockobjs, auth>>

\* An UploadBlocks that packs the first block of the batch only
UploadContents_first(coll, block_ids) ==
    [id \in {block_ids[i] : i \in 1..Len(block_ids) \cap {1}} |-> Deref(coll.items[id]).data]

\* UploadBlocks lines 413-419: dict(block_data), block id -> data
UploadContents(coll, block_ids) ==
    [id \in {block_ids[i] : i \in 1..Len(block_ids)} |-> Deref(coll.items[id]).data]

UploadBlocks(vault, block_ids, res) ==
    LET args == [VArgs(vault) EXCEPT !.ids = block_ids]
    IN
    IF ~VaultInstanceRule(vault) \/ ~MetadataBlockIdIterableRule(block_ids)
    THEN /\ last' = Invalid("UploadBlocks", args,
                            IF ~VaultInstanceRule(vault) THEN "InvalidVaultInstance"
                            ELSE "InvalidBlocks")
         /\ UNCHANGED <<vaults, project, blockobjs, auth>>
    ELSE LET coll == vaults[vault.inst].blocks
             url == get_blocks_path(vaults[vault.inst].vault_id)
         IN /\ last' =
                 IF \E i \in 1..Len(block_ids) : block_ids[i] \notin DOMAIN coll.items
                 THEN \* vault.blocks[block_id] raises KeyError
                      Raised("UploadBlocks", args, <<>>, NoResponse, "KeyError", NoError)
                 ELSE LET req == Request("POST", url,
                                   [token |-> auth.token, project_id |-> auth.tenant,
                                    content_type |-> "application/msgpack",
                                    content_length |-> None],
                                   UploadContents(coll, block_ids))
                      IN IF res.status_code = 201
                         THEN Returned("UploadBlocks", args, <<req>>, Brief(res),
                                       BoolResult(TRUE))
                         ELSE OperationFailed("UploadBlocks", args, <<req>>, res)
            /\ UNCHANGED <<vaults, project, blockobjs, auth>>

\* A DeleteBlock that clears the marker of the collection on 204
DeleteBlockLocal_unmarking(coll, b, res) ==
    IF res.status_code = 204 THEN [coll EXCEPT !.marker = None] ELSE coll

\* A DeleteBlock that drops the block from the collection on 204
DeleteBlockLocal_dropping(coll, b, res) ==
    IF res.status_code = 204 /\ b.block_id # None
    THEN [coll EXCEPT !.items = [k \in DOMAIN @ \ {b.block_id[1]} |-> @[k]]]
    ELSE coll

\* DeleteBlock lines 451-456: the Blocks collection of the vault after the
\* response (the block is not removed from the local Vault object)
DeleteBlockLocal(coll, b, res) == coll

DeleteBlock(vault, block, res) ==
    LET args == VBArgs(vault, block)
    IN
    IF VaultBlockRule(vault, block) # ""
    THEN /\ last' = Invalid("DeleteBlock", args, VaultBlockRule(vault, block))
         /\ UNCHANGED <<vaults, project, blockobjs, auth>>
    ELSE LET b == blockobjs[block.inst]
             url == get_block_path(vaults[vault.inst].vault_id, Format(b.block_id))
             req == Request("DELETE", url, update_headers, NoBody)
         IN /\ vaults' = [vaults EXCEPT ![vault.inst].blocks = DeleteBlockLocal(@, b, res)]
            /\ last' = IF res.status_code = 204
                       THEN Returned("DeleteBlock", args, <<req>>, Brief(res),
                                     BoolResult(TRUE))
                       ELSE OperationFailed("DeleteBlock", args, <<req>>, res)
            /\ UNCHANGED <<project, blockobjs, auth>>

\* of the responses to the requests of one call: the last one, and each
BriefEach(resps) ==
    [status_code |-> IF resps = <<>> THEN 0 ELSE resps[Len(resps)].status_code,
     text |-> IF resps = <<>> THEN "" ELSE resps[Len(resps)].text,
     each |-> [k \in 1..Len(resps) |-> Brief(resps[k])]]

\* A DeleteBlocks that gives up at the first id it fails to delete
RECURSIVE DoDeleteBlocks_aborting(_, _, _, _)
DoDeleteBlocks_aborting(v, block_ids, resps, acc) ==
    IF block_ids = <<>> THEN acc
    ELSE LET id == block_ids[1]
             coll == vaults[v].blocks
             present == id \in DOMAIN coll.items
             req == Request("DELETE",
                            get_block_path(vaults[v].vault_id,
                                           Format(Deref(coll.items[id]).block_id)),
                            update_headers, NoBody)
             ok == present /\ resps[1].status_code = 204
             now == [reqs |-> IF present THEN Append(acc.reqs, req) ELSE acc.reqs,
                     flags |-> Append(acc.flags, ok)]
         IN IF ok THEN DoDeleteBlocks_aborting(v, Tail(block_ids), Tail(resps), now)
            ELSE [now EXCEPT !.flags = @ \o [k \in 1..(Len(block_ids) - 1) |-> FALSE]]

\* DeleteBlocks lines 468-477: do_delete_block for every id in order.  resps
\* holds, for every id, the response its DELETE gets if it is sent.
RECURSIVE DoDeleteBlocks(_, _, _, _)
DoDeleteBlocks(v, block_ids, resps, acc) ==
    IF block_ids = <<>> THEN acc
    ELSE LET id == block_ids[1]
             coll == vaults[v].blocks
             present == id \in DOMAIN coll.items
             req == Request("DELETE",
                            get_block_path(vaults[v].vault_id,
                                           Format(Deref(coll.items[id]).block_id)),
                            update_headers, NoBody)
             ok == present /\ resps[1].status_code = 204
         IN DoDeleteBlocks(v, Tail(block_ids), Tail(resps),
                [reqs |-> IF present THEN Append(acc.reqs, req) ELSE acc.reqs,
                 flags |-> Append(acc.flags, ok)])

DeleteBlocks(vault, block_ids, resps) ==
    LET args == [VArgs(vault) EXCEPT !.ids = block_ids]
    IN
    /\ Len(resps) = Len(block_ids)
    /\ IF ~VaultInstanceRule(vault) \/ ~MetadataBlockIdIterableRule(block_ids)
       THEN last' = Invalid("DeleteBlocks", args,
                            IF ~VaultInstanceRule(vault) THEN "InvalidVaultInstance"
                            ELSE "InvalidBlocks")
       ELSE LET done == DoDeleteBlocks(vault.inst, block_ids, resps,
                                       [reqs |-> <<>>, flags |-> <<>>])
            IN last' = Returned("DeleteBlocks", args, done.reqs, BriefEach(resps),
                                [IdsResult(block_ids) EXCEPT !.kind = "ids+flags",
                                                             !.flags = done.flags])
    /\ UNCHANGED <<vaults, project, blockobjs, auth>>

\* DownloadBlock lines 497-499: the Block after a 200
DownloadBlockFields(b, res) == [b EXCEPT !.data = Some(res.content)]

DownloadBlock(vault, block, res) ==
    LET args == VBArgs(vault, block)
    IN
    IF VaultBlockRule(vault, block) # ""
    THEN /\ last' = Invalid("DownloadBlock", args, VaultBlockRule(vault, block))
         /\ UNCHANGED <<vaults, project, blockobjs, auth>>
    ELSE LET b == blockobjs[block.inst]
             url == get_block_path(vaults[vault.inst].vault_id, Format(b.block_id))
             req == Request("GET", url, update_headers, NoBody)
         IN IF res.status_code = 200
            THEN /\ blockobjs' = [blockobjs EXCEPT ![block.inst] =
                                      DownloadBlockFields(@, res)]
                 /\ last' = Returned("DownloadBlock", args, <<req>>, Brief(res),
                                     BoolResult(TRUE))
                 /\ UNCHANGED <<vaults, project, auth>>
            ELSE /\ last' = OperationFailed("DownloadBlock", args, <<req>>, res)
                 /\ UNCHANGED <<vaults, project, blockobjs, auth>>

(***************************************************************************)
(* The caller: Files.                                                      *)
(***************************************************************************)
\* the offsets of the model
Offsets == {JsonInt(0), JsonStr(0)}

\* The caller runs vault.files[file_id].assign_block(block_id, offset)
FileAssignBlock(v, file_id, block_id, offset) ==
    /\ file_id \in DOMAIN vaults[v].files
    /\ vaults' = [vaults EXCEPT ![v].files[file_id] =
                      File_assign_block(@, block_id, offset)]
    /\ last' = Returned("File.assign_block", VFArgs(Inst(v), file_id), <<>>,
                        NoResponse, NoResult)
    /\ UNCHANGED <<project, blockobjs, auth>>

(***************************************************************************)
(* DeuceClient: file operations.                                           *)
(***************************************************************************)
\* @validate(vault=VaultInstanceRule, file_id=FileIdRule)
VaultFileRule(vault, file_id) ==
    IF ~VaultInstanceRule(vault) THEN "InvalidVaultInstance"
    ELSE IF ~FileIdRule(file_id) THEN "InvalidFiles"
    ELSE ""

CreateFileResponses ==
    [status_code : StatusCodes, text : ResponseTexts, file_id : ValidFileIds,
     location : {"loc"}]

\* A CreateFile that adds the File whatever the status of the response
CreateFileFiles_eager(files, vault_id, res) ==
    DictPut(files, res.file_id, File(project_id, vault_id, res.file_id, res.location))

\* CreateFile lines 519-525: vault.files after the response
CreateFileFiles(files, vault_id, res) ==
    IF res.status_code = 201
    THEN DictPut(files, res.file_id, File(project_id, vault_id, res.file_id, res.location))
    ELSE files

CreateFile(vault, res) ==
    LET args == VArgs(vault)
    IN
    IF ~VaultInstanceRule(vault)
    THEN /\ last' = Invalid("CreateFile", args, "InvalidVaultInstance")
         /\ UNCHANGED <<vaults, project, blockobjs, auth>>
    ELSE LET vault_id == vaults[vault.inst].vault_id
             req == Request("POST", get_files_path(vault_id), update_headers, NoBody)
         IN /\ vaults' = [vaults EXCEPT ![vault.inst].files =
                              CreateFileFiles(@, vault_id, res)]
            /\ last' = IF res.status_code = 201
                       THEN Returned("CreateFile", args, <<req>>, BriefCreated(res),
                                     FileIdResult(res.file_id))
                       ELSE OperationFailed("CreateFile", args, <<req>>, res)
            /\ UNCHANGED <<project, blockobjs, auth>>

\* DeleteFile lines 545-550: vault.files after the response
DeleteFileLocal(files, file_id, res) == files

DeleteFile(vault, file_id, res) ==
    LET args == VFArgs(vault, file_id)
    IN
    IF VaultFileRule(vault, file_id) # ""
    THEN /\ last' = Invalid("DeleteFile", args, VaultFileRule(vault, file_id))
         /\ UNCHANGED <<vaults, project, blockobjs, auth>>
    ELSE LET vault_id == vaults[vault.inst].vault_id
             req == Request("DELETE", get_file_path(vault_id, file_id), update_headers,
                            NoBody)
         IN /\ vaults' = [vaults EXCEPT ![vault.inst].files =
                              DeleteFileLocal(@, file_id, res)]
            /\ last' = IF res.status_code = 204
                       THEN Returned("DeleteFile", args, <<req>>, Brief(res),
                                     BoolResult(TRUE))
                       ELSE OperationFailed("DeleteFile", args, <<req>>, res)
            /\ UNCHANGED <<project, blockobjs, auth>>

\* streamed is whether writing the streamed body to output_file went through
DownloadFile(vault, file_id, res, streamed) ==
    LET args == VFArgs(vault, file_id)
    IN
    IF VaultFileRule(vault, file_id) # ""
    THEN /\ last' = Invalid("DownloadFile", args, VaultFileRule(vault, file_id))
         /\ UNCHANGED <<vaults, project, blockobjs, auth>>
    ELSE LET vault_id == vaults[vault.inst].vault_id
             req == Request("GET", get_file_path(vault_id, file_id), update_headers,
                            NoBody)
         IN /\ last' = IF res.status_code = 200
                       THEN IF streamed
                            THEN Returned("DownloadFile", args, <<req>>, Brief(res),
                                          BoolResult(TRUE))
                            ELSE \* 'Failed while Downloading File. Error: {ex}'
                                 Raised("DownloadFile", args, <<req>>, Brief(res),
                                        "RuntimeError", NoError)
                       ELSE OperationFailed("DownloadFile", args, <<req>>, res)
            /\ UNCHANGED <<vaults, project, blockobjs, auth>>

\* FinalizeFile lines 625-630: what the call ends with.  The failure is
\* 'Failed to finalize file. Details: {0}'.format(res.json())
FinalizeFileOutcome(args, req, res) ==
    IF res.status_code \in {200, 204}
    THEN Returned("FinalizeFile", args, <<req>>, Brief(res), BoolResult(TRUE))
    ELSE Raised("FinalizeFile", args, <<req>>, Brief(res), "RuntimeError",
                [code |-> None, text |-> None, details |-> Some(res.text)])

FinalizeFile(vault, file_id, res) ==
    LET args == VFArgs(vault, file_id)
    IN
    /\ last' =
        IF VaultFileRule(vault, file_id) # ""
        THEN Invalid("FinalizeFile", args, VaultFileRule(vault, file_id))
        ELSE IF file_id \notin DOMAIN vaults[vault.inst].files
        THEN Raised("FinalizeFile", args, <<>>, NoResponse, "KeyError", NoError)
        ELSE LET vault_id == vaults[vault.inst].vault_id
                 req == Request("POST", get_file_path(vault_id, file_id),
                                [token |-> auth.token, project_id |-> auth.tenant,
                                 file_length |-> FileLen(vaults[vault.inst].files[file_id])],
                                NoBody)
             IN FinalizeFileOutcome(args, req, res)
    /\ UNCHANGED <<vaults, project, blockobjs, auth>>

\* the (block_id, offset) lists a caller passes to AssignBlocksToFile
PairLists(ids) ==
    {None, Some(<<>>)} \cup {Some(<<<<b, o>>>>) : b \in ids, o \in Offsets}
AssignResponses ==
    [status_code : StatusCodes, text : ResponseTexts,
     body : {<<>>, <<"b2", "b1">>} \cup {<<b>> : b \in ValidBlockIds}]

\* A check of the first pair of the list only
CheckPairs_first(offsets, pairs) ==
    IF pairs = <<>> THEN ""
    ELSE IF Str(pairs[1][2]) \notin OKeys(offsets) THEN "KeyError"
    ELSE IF OGet(offsets, Str(pairs[1][2])) # pairs[1][1] THEN "ValueError"
    ELSE ""

\* An AssignBlocksToFile without local checks
AssignChecks_skipped(file, block_ids) == ""

\* AssignBlocksToFile lines 651-665: the local checks; the error raised, ""
\* when the call passes them
RECURSIVE CheckPairs(_, _)
CheckPairs(offsets, pairs) ==
    IF pairs = <<>> THEN ""
    ELSE IF Str(pairs[1][2]) \notin OKeys(offsets) THEN "KeyError"
    ELSE IF OGet(offsets, Str(pairs[1][2])) # pairs[1][1] THEN "ValueError"
    ELSE CheckPairs(offsets, Tail(pairs))
AssignChecks(file, block_ids) ==
    IF block_ids # None
    THEN IF Len(block_ids[1]) = 0 THEN "ValueError"
         ELSE CheckPairs(file.offsets, block_ids[1])
    ELSE IF Len(file.offsets) = 0 THEN "ValueError" ELSE ""

\* An AssignBlocksToFile that leaves out the last entry of the offsets map
AssignmentData_short(file, block_ids) ==
    IF block_ids # None THEN block_ids[1]
    ELSE [i \in 1..(Len(file.offsets) - 1) |-> <<file.offsets[i][2], file.offsets[i][1]>>]

\* AssignBlocksToFile lines 679-687: block_assignment_data
AssignmentData(file, block_ids) ==
    IF block_ids # None THEN block_ids[1]
    ELSE [i \in 1..Len(file.offsets) |-> <<file.offsets[i][2], file.offsets[i][1]>>]

\* An AssignBlocksToFile that returns the ids of the response sorted
BlocksToUpload_sorted(res) ==
    IF res.body = <<"b2", "b1">> THEN IdsResult(<<"b1", "b2">>) ELSE IdsResult(res.body)

\* AssignBlocksToFile lines 699-702: block_list_to_upload
BlocksToUpload(res) == IdsResult(res.body)

AssignBlocksToFile(vault, file_id, block_ids, res) ==
    LET args == [VFArgs(vault, file_id) EXCEPT !.pairs = block_ids]
    IN
    /\ last' =
        IF VaultFileRule(vault, file_id) # ""
        THEN Invalid("AssignBlocksToFile", args, VaultFileRule(vault, file_id))
        ELSE IF ~MetadataBlockIdOffsetIterableRuleNoneOkay(block_ids)
        THEN Invalid("AssignBlocksToFile", args, "InvalidBlocks")
        ELSE IF file_id \notin DOMAIN vaults[vault.inst].files
        THEN Raised("AssignBlocksToFile", args, <<>>, NoResponse, "KeyError", NoError)
        ELSE LET file == vaults[vault.inst].files[file_id]
                 vault_id == vaults[vault.inst].vault_id
                 req == Request("POST", get_fileblocks_path(vault_id, file_id),
                                update_headers, AssignmentData(file, block_ids))
             IN IF AssignChecks(file, block_ids) # ""
                THEN Raised("AssignBlocksToFile", args, <<>>, NoResponse,
                            AssignChecks(file, block_ids), NoError)
                ELSE IF res.status_code = 200
                THEN Returned("AssignBlocksToFile", args, <<req>>, BriefBody(res),
                              BlocksToUpload(res))
                ELSE OperationFailed("AssignBlocksToFile", args, <<req>>, res)
    /\ UNCHANGED <<vaults, project, blockobjs, auth>>

\* the bodies of a file block listing: [block_id, offset] pairs
FileListBodies == {<<>>} \cup {<<<<b, o>>>> : b \in ValidBlockIds, o \in Offsets}
FileListResponses(path) ==
    {[status_code |-> 200, text |-> t, body |-> b, next_batch |-> h] :
        t \in ResponseTexts, b \in FileListBodies,
        h \in NextBatchHeaders(path, {"b2"})}
      \cup {[status_code |-> c, text |-> t, body |-> <<>>, next_batch |-> None] :
              c \in StatusCodes \ {200}, t \in ResponseTexts}

\* GetFileBlockList lines 751-754: the offsets after the listed pairs were
\* stored
RECURSIVE ListedOffsets(_, _)
ListedOffsets(offsets, body) ==
    IF body = <<>> THEN offsets
    ELSE ListedOffsets(OPut(offsets, body[1][2], body[1][1]), Tail(body))
RECURSIVE PairIds(_)
PairIds(body) == IF body = <<>> THEN <<>> ELSE <<body[1][1]>> \o PairIds(Tail(body))

GetFileBlockList(vault, file_id, marker, limit, res) ==
    LET args == [VFArgs(vault, file_id) EXCEPT !.marker = marker, !.limit = limit]
    IN
    IF VaultFileRule(vault, file_id) # "" \/ ~MetadataBlockIdRuleNoneOkay(marker)
         \/ ~LimitRuleNoneOkay(limit)
    THEN /\ last' = Invalid("GetFileBlockList", args,
                            IF VaultFileRule(vault, file_id) # ""
                            THEN VaultFileRule(vault, file_id)
                            ELSE IF ~MetadataBlockIdRuleNoneOkay(marker)
                            THEN "InvalidBlocks" ELSE "ParameterConstraintError")
         /\ UNCHANGED <<vaults, project, blockobjs, auth>>
    ELSE IF file_id \notin DOMAIN vaults[vault.inst].files
    THEN /\ last' = Raised("GetFileBlockList", args, <<>>, NoResponse, "KeyError",
                           NoError)
         /\ UNCHANGED <<vaults, project, blockobjs, auth>>
    ELSE LET v == vault.inst
             url == ListingUrl(get_fileblocks_path(vaults[v].vault_id, file_id),
                               marker, limit, ",")
             req == Request("GET", url, update_headers, NoBody)
             qs == parse_qs(urlparse4(res.next_batch[1]), "marker")
         IN IF res.status_code = 200
            THEN /\ vaults' = [vaults EXCEPT ![v].files[file_id].offsets =
                                   ListedOffsets(@, res.body)]
                 /\ last' = IF res.next_batch = None
                            THEN Returned("GetFileBlockList", args, <<req>>, BriefList(res),
                                          IdsMarkerResult(PairIds(res.body), None))
                            ELSE IF qs = <<>>
                            THEN Raised("GetFileBlockList", args, <<req>>, BriefList(res),
                                        "KeyError", NoError)
                            ELSE Returned("GetFileBlockList", args, <<req>>, BriefList(res),
                                          IdsMarkerResult(PairIds(res.body), Some(qs[1])))
                 /\ UNCHANGED <<project, blockobjs, auth>>
            ELSE /\ last' = OperationFailed("GetFileBlockList", args, <<req>>, res)
                 /\ UNCHANGED <<vaults, project, blockobjs, auth>>

(***************************************************************************)
(* DeuceClient: block storage operations.                                  *)
(***************************************************************************)
\* DownloadBlockStorageData lines 789-798: the Block after a 200
DownloadBlockStorageDataFields(b, res) ==
    [b EXCEPT !.data = Some(res.content),
              !.ref_modified = Some(IntOrZero(res.headers.ref_modified)),
              !.ref_count = Some(IntOrZero(res.headers.ref_count)),
              !.block_id = Some(res.headers.block_id)]

DownloadBlockStorageData(vault, block, res) ==
    LET args == VBArgs(vault, block)
    IN
    IF VaultBlockRule(vault, block) # ""
    THEN /\ last' = Invalid("DownloadBlockStorageData", args, VaultBlockRule(vault, block))
         /\ UNCHANGED <<vaults, project, blockobjs, auth>>
    ELSE LET b == blockobjs[block.inst]
             url == get_storage_block_path(vaults[vault.inst].vault_id,
                                           Format(b.storage_id))
             req == Request("GET", url, update_headers, NoBody)
         IN IF res.status_code = 200
            THEN /\ blockobjs' = [blockobjs EXCEPT ![block.inst] =
                                      DownloadBlockStorageDataFields(@, res)]
                 /\ last' = Returned("DownloadBlockStorageData", args, <<req>>,
                                     Brief(res), BlockResult(block.inst))
                 /\ UNCHANGED <<vaults, project, auth>>
            ELSE /\ last' = OperationFailed("DownloadBlockStorageData", args, <<req>>, res)
                 /\ UNCHANGED <<vaults, project, blockobjs, auth>>

\* DeleteBlockStorage lines 824-831: vault.storageblocks after the response
DeleteBlockStorageLocal(coll, b, res) == coll

DeleteBlockStorage(vault, block, res) ==
    LET args == VBArgs(vault, block)
    IN
    IF VaultBlockRule(vault, block) # ""
    THEN /\ last' = Invalid("DeleteBlockStorage", args, VaultBlockRule(vault, block))
         /\ UNCHANGED <<vaults, project, blockobjs, auth>>
    ELSE LET b == blockobjs[block.inst]
             url == get_storage_block_path(vaults[vault.inst].vault_id,
                                           Format(b.storage_id))
             req == Request("DELETE", url, update_headers, NoBody)
         IN /\ vaults' = [vaults EXCEPT ![vault.inst].storageblocks =
                              DeleteBlockStorageLocal(@, b, res)]
            /\ last' = IF res.status_code = 204
                       THEN Returned("DeleteBlockStorage", args, <<req>>, Brief(res),
                                     BoolResult(TRUE))
                       ELSE OperationFailed("DeleteBlockStorage", args, <<req>>, res)
            /\ UNCHANGED <<project, blockobjs, auth>>

\* GetBlockStorageList lines 869-879: block_list.update(blocks), then
\* vault.storageblocks.update(block_list)
RECURSIVE ListedStorageBlocks(_, _, _)
ListedStorageBlocks(coll, vault_id, body) ==
    IF body = <<>> THEN [err |-> "", coll |-> coll]
    ELSE LET r == StorageBlocks_setitem(coll, body[1],
                    Some(Own(Block(project_id, vault_id, None, Some(body[1]),
                                   None, "storage"))))
         IN IF r.err # "" THEN r ELSE ListedStorageBlocks(r.coll, vault_id, Tail(body))

\* GetBlockStorageList lines 881-887
GetBlockStorageListMarker(coll, res) ==
    IF res.next_batch # None
    THEN LET qs == parse_qs(urlparse4(res.next_batch[1]), "marker")
         IN IF qs = <<>> THEN [err |-> "KeyError", coll |-> coll]
            ELSE StorageBlocks_set_marker(coll, Some(qs[1]))
    ELSE StorageBlocks_set_marker(coll, None)

GetBlockStorageList(vault, marker, limit, res) ==
    LET args == [VArgs(vault) EXCEPT !.marker = marker, !.limit = limit]
    IN
    IF ~VaultInstanceRule(vault) \/ ~StorageBlockIdRuleNoneOkay(marker)
         \/ ~LimitRuleNoneOkay(limit)
    THEN /\ last' = Invalid("GetBlockStorageList", args,
                            IF ~VaultInstanceRule(vault) THEN "InvalidVaultInstance"
                            ELSE IF ~StorageBlockIdRuleNoneOkay(marker)
                            THEN "InvalidStorageBlocks" ELSE "ParameterConstraintError")
         /\ UNCHANGED <<vaults, project, blockobjs, auth>>
    ELSE LET v == vault.inst
             url == ListingUrl(get_storage_blocks_path(vaults[v].vault_id),
                               marker, limit, "&")
             req == Request("GET", url, update_headers, NoBody)
             block_list == ListedStorageBlocks(
                               StorageBlocks(project_id, vaults[v].vault_id),
                               vaults[v].vault_id, res.body)
             listed == IF block_list.err # ""
                       THEN [err |-> block_list.err, coll |-> vaults[v].storageblocks]
                       ELSE ListedStorageBlocks(vaults[v].storageblocks,
                                                vaults[v].vault_id, res.body)
             marked == IF listed.err # "" THEN listed
                       ELSE GetBlockStorageListMarker(listed.coll, res)
         IN IF res.status_code = 200
            THEN /\ vaults' = [vaults EXCEPT ![v].storageblocks = marked.coll]
                 /\ last' = IF marked.err = ""
                            THEN Returned("GetBlockStorageList", args, <<req>>,
                                          BriefList(res), IdsResult(res.body))
                            ELSE Raised("GetBlockStorageList", args, <<req>>,
                                        BriefList(res), marked.err, NoError)
                 /\ UNCHANGED <<project, blockobjs, auth>>
            ELSE /\ last' = OperationFailed("GetBlockStorageList", args, <<req>>, res)
                 /\ UNCHANGED <<vaults, project, blockobjs, auth>>

\* text.lower() and json.loads of the X-Block-Orphaned header
Lower(t) == CASE t = "True" -> "true" [] t = "False" -> "false" [] OTHER -> t
JsonLoadsBool(t) == t = "true"

\* HeadBlockStorage lines 915-930: the Block after a 204
HeadBlockStorageFields(b, res) ==
    [b EXCEPT !.ref_modified = Some(IntOrZero(res.headers.ref_modified)),
              !.ref_count = Some(IntOrZero(res.headers.ref_count)),
              !.block_id = IF res.headers.block_id = "None" THEN None
                           ELSE Some(res.headers.block_id),
              !.block_size = Some(IntOrZero(res.headers.block_size)),
              !.block_orphaned = Some(JsonLoadsBool(Lower(res.headers.orphaned)))]

HeadBlockStorage(vault, block, res) ==
    LET args == VBArgs(vault, block)
    IN
    IF VaultBlockRule(vault, block) # ""
    THEN /\ last' = Invalid("HeadBlockStorage", args, VaultBlockRule(vault, block))
         /\ UNCHANGED <<vaults, project, blockobjs, auth>>
    ELSE LET b == blockobjs[block.inst]
             url == get_storage_block_path(vaults[vault.inst].vault_id,
                                           Format(b.storage_id))
             req == Request("HEAD", url, update_headers, NoBody)
         IN IF res.status_code = 204
            THEN /\ blockobjs' = [blockobjs EXCEPT ![block.inst] =
                                      HeadBlockStorageFields(@, res)]
                 /\ last' = Returned("HeadBlockStorage", args, <<req>>, Brief(res),
                                     BlockResult(block.inst))
                 /\ UNCHANGED <<vaults, project, auth>>
            ELSE /\ last' = OperationFailed("HeadBlockStorage", args, <<req>>, res)
                 /\ UNCHANGED <<vaults, project, blockobjs, auth>>

(***************************************************************************)
(* Specifications.                                                         *)
(***************************************************************************)
\* No paging server: the answers of the Transport are inputs of the calls
NoServer == [ids |-> <<>>, page |-> 0]

\* After DeuceClient(authenticator, apihost): the caller holds nothing yet
InitClient ==
    /\ vaults = <<>>
    /\ project = Project(TenantId)
    /\ blockobjs = <<>>
    /\ auth = [token |-> "t1", tenant |-> TenantId]
    /\ calls = 0
    /\ last = Returned("DeuceClient", NoArgs, <<>>, NoResponse, NoResult)
    /\ server = NoServer

\* A caller that has built a vault with a block, a storage block and a file
\* whose offset 0 holds the block
InitPopulated ==
    /\ vaults = <<[Vault(TenantId, "v1") EXCEPT
                     !.blocks.items = DictPut(EmptyDict, "b1", Held(1)),
                     !.storageblocks.items = DictPut(EmptyDict, "s1", Held(2)),
                     !.files = DictPut(EmptyDict, "f1",
                                  File_assign_block(File(TenantId, "v1", "f1", "loc"),
                                                    "b1", JsonInt(0)))]>>
    /\ project = Project(TenantId)
    /\ blockobjs = <<Block(TenantId, "v1", Some("b1"), None, Some(<<1, 2>>), "metadata"),
                     Block(TenantId, "v1", None, Some("s1"), None, "storage")>>
    /\ auth = [token |-> "t1", tenant |-> TenantId]
    /\ calls = 0
    /\ last = Returned("DeuceClient", NoArgs, <<>>, NoResponse, NoResult)
    /\ server = NoServer

Init == InitClient \/ InitPopulated

\* The arguments a caller passes
VaultObjs == {Inst(i) : i \in 1..Len(vaults)}
VaultArgs == VaultObjs \cup {Name(n) : n \in VaultNames}
BlockObjs == {Inst(i) : i \in 1..Len(blockobjs)}
BlockArgs == BlockObjs \cup {Name("b1")}
ProjectArgs == {Inst(1), Name(TenantId)}
StatisticsBodies == {"stats"}

\* one call of a run
Call(Op) == calls < MaxCalls /\ calls' = calls + 1 /\ Op /\ UNCHANGED server
\* one call of a caller that is not counted
Free(Op) == Op /\ UNCHANGED <<calls, server>>

VaultListResponses == ListResponses(get_vault_base_path, ValidVaultIds, VaultNames)
BlockListResponses == ListResponses(get_blocks_path("v1"), ValidBlockIds, BlockNames)
StorageListResponses ==
    ListResponses(get_storage_blocks_path("v1"), ValidStorageIds, StorageNames)

(* Vault operations *)
NextVault ==
    \/ \E v \in ValidVaultIds : Free(NewVault(v))
    \/ \E v \in 1..Len(vaults) : Free(ProjectAdd(v))
    \/ \E n \in VaultNames, res \in Responses : Free(CreateVault(n, res))
    \/ \E n \in VaultNames, res \in Responses : Free(GetVault(n, res))
    \/ \E a \in VaultArgs, res \in Responses : Free(VaultExists(a, res))
    \/ \E a \in VaultArgs, res \in Responses : Free(DeleteVault(a, res))
    \/ \E a \in VaultArgs, b \in StatisticsBodies, res \in Responses :
          Free(GetVaultStatistics(a, b, res))
    \/ \E p \in ProjectArgs, m \in {None} \cup {Some(n) : n \in VaultNames},
          res \in VaultListResponses :
          Free(ListVaults(p, m, res))

SpecVault == InitClient /\ [][NextVault]_vars

(* The listings *)
NextList ==
    \/ \E v \in ValidVaultIds : Free(NewVault(v))
    \/ \E p \in ProjectArgs,
          res \in VaultListResponses :
          Free(ListVaults(p, None, res))
    \/ \E a \in VaultObjs,
          res \in BlockListResponses :
          Free(GetBlockList(a, None, None, res))
    \/ \E a \in VaultObjs,
          res \in StorageListResponses :
          Free(GetBlockStorageList(a, None, None, res))

SpecList == InitClient /\ [][NextList]_vars

(* Every operation of the client, in runs of at most MaxCalls calls *)
\* the responses of a run: the success code(s) of the operation and a failure
Answers(codes) == [status_code : codes, text : ResponseTexts]
BlockAnswers(codes) ==
    [status_code : codes, text : ResponseTexts, headers : BlockHeaders,
     content : Contents]
Only(codes, rs) == {r \in rs : r.status_code \in codes}
VaultListAnswers == Only({200, 500}, ListResponses(get_vault_base_path, {"v1"}, {"v1"}))
BlockListAnswers ==
    Only({200, 500}, ListResponses(get_blocks_path("v1"), ValidBlockIds, {"b2"}))
StorageListAnswers ==
    Only({200, 500}, ListResponses(get_storage_blocks_path("v1"), {"s1"}, {"s1"}))
FileListAnswers == Only({200, 500}, FileListResponses(get_files_path("v1")))
CreateFileAnswers == Only({201, 500}, CreateFileResponses)
AssignAnswers == Only({200, 500}, AssignResponses)
DeleteAnswers == [1..1 -> Answers({204, 500})] \cup [1..2 -> Answers({204, 500})]

\* The inputs of a call: the arguments that pass validation with every
\* answer, and the arguments that fail it with one answer
VaultInputs(answers) ==
    (VaultObjs \X answers) \cup ({Name("v1")} \X Only({500}, answers))
VaultBlockInputs(answers) ==
    (VaultObjs \X BlockObjs \X answers)
      \cup ({Name("v1")} \X BlockObjs \X Only({500}, answers))
      \cup (VaultObjs \X {Name("b1")} \X Only({500}, answers))
VaultFileInputs(answers) ==
    (VaultObjs \X ValidFileIds \X answers)
      \cup ({Name("v1")} \X ValidFileIds \X Only({500}, answers))
      \cup (VaultObjs \X {"f!"} \X Only({500}, answers))
\* marker and limit of a listing: none, both, one of them, a marker or a
\* limit that fails validation
ListingInputs(id, bad, answers) ==
    (VaultObjs \X {<<None, None>>, <<Some(id), Some(1)>>, <<Some(id), None>>,
                   <<None, Some(1)>>} \X answers)
      \cup ((VaultObjs \cup {Name("v1")}) \X {<<Some(bad), None>>, <<None, Some(0)>>}
              \X Only({500}, answers))
      \cup ({Name("v1")} \X {<<None, None>>} \X Only({500}, answers))

(* The files of a vault and the assignment of blocks to them *)
\* the (block_id, offset) lists a caller passes: none, the empty list, every
\* one pair, two pairs in both orders, and a list of an invalid block id
AssignPairLists ==
    {None, Some(<<>>)}
      \cup {Some(<<<<b, o>>>>) : b \in ValidBlockIds, o \in {JsonInt(0), JsonInt(1), JsonStr(0)}}
      \cup {Some(<<<<"b1", JsonInt(0)>>, <<"b2", JsonInt(1)>>>>),
            Some(<<<<"b2", JsonInt(1)>>, <<"b1", JsonInt(0)>>>>),
            Some(<<<<"b!", JsonInt(0)>>>>)}
NextFile ==
    \/ \E v \in ValidVaultIds : Free(NewVault(v))
    \/ \E v \in 1..Len(vaults), f \in ValidFileIds, b \in ValidBlockIds,
          o \in {JsonInt(0), JsonInt(1)} :
          Free(FileAssignBlock(v, f, b, o))
    \/ \E x \in VaultInputs(CreateFileAnswers) : Free(CreateFile(x[1], x[2]))
    \/ \E x \in VaultFileInputs(Answers({200, 204, 500})) :
          Free(FinalizeFile(x[1], x[2], x[3]))
    \/ \E x \in VaultFileInputs(AssignAnswers), p \in AssignPairLists :
          Free(AssignBlocksToFile(x[1], x[2], p, x[3]))
    \/ \E x \in ListingInputs("b1", "b!", FileListAnswers), f \in FileNames :
          Free(GetFileBlockList(x[1], f, x[2][1], x[2][2], x[3]))

SpecFile == Init /\ [][NextFile]_vars

(* The Blocks collection of a vault in the hands of a caller *)
\* the dicts a caller passes to Blocks.update: one item, or two of different
\* keys
UpdateItems ==
    {<<<<k, x>>>> : k \in BlockNames, x \in BlockArgs}
      \cup {<<<<k, x>>, <<l, y>>>> : k \in {"b1"}, l \in {"b2", "b!"}, x, y \in BlockArgs}
      \cup {<<<<"b!", x>>, <<"b2", Name("b1")>>>> : x \in BlockObjs}
NextBlocks ==
    \/ \E v \in ValidVaultIds : Free(NewVault(v))
    \/ \E b \in ValidBlockIds : Free(NewBlock(b, None))
    \/ \E v \in 1..Len(vaults), b \in BlockArgs : Free(BlocksAdd(v, b))
    \/ \E v \in 1..Len(vaults), k \in BlockNames, b \in BlockArgs :
          Free(BlocksSetItem(v, k, b))
    \/ \E v \in 1..Len(vaults), items \in UpdateItems : Free(BlocksUpdate(v, items))

SpecBlocks == Init /\ [][NextBlocks]_vars

(* A caller that walks the block list of a vault page by page *)
\* the most pages a walk is followed for
MaxPages == 4
\* the lists a server holds (ids in any order, none twice) and its page sizes
ServerIds == ValidBlockIds \cup ListedOnlyIds
ServerLists ==
    {ids \in {<<>>} \cup {<<a>> : a \in ServerIds}
               \cup {<<a, b>> : a, b \in ServerIds}
               \cup {<<a, b, c>> : a, b, c \in ServerIds} :
        \A m, n \in 1..Len(ids) : ids[m] = ids[n] => m = n}
Servers == [ids : ServerLists, page : 1..3]

\* The answer of the server to a listing from a marker: the page that starts
\* at the marker (at the head of the list without one), and the continuation
\* header naming the first id of the next page unless the page is the last
ServerPage(marker) ==
    LET ids == server.ids
        start == IF marker = None THEN 1
                 ELSE CHOOSE n \in 1..Len(ids) : ids[n] = marker[1]
        next == start + server.page
    IN [status_code |-> 200, text |-> "oops",
        body |-> SubSeq(ids, start, IF next - 1 < Len(ids) THEN next - 1 ELSE Len(ids)),
        next_batch |-> IF next <= Len(ids)
                       THEN Some([path |-> get_blocks_path("v1"),
                                  query |-> <<<<"marker", ids[next]>>>>])
                       ELSE None]

\* the walk is over: a call was made and left no marker
WalkDone == calls > 0 /\ vaults[1].blocks.marker = None

\* One turn of the caller's loop: GetBlockList from null first, and then from
\* the marker the last page left
WalkStep ==
    /\ ~WalkDone
    /\ calls < MaxPages
    /\ LET marker == IF calls = 0 THEN None ELSE vaults[1].blocks.marker
       IN GetBlockList(Inst(1), marker, None, ServerPage(marker))
    /\ calls' = calls + 1
    /\ UNCHANGED server

\* a caller with a vault, new or with a block of its own in it, before a server
InitWalk ==
    /\ server \in Servers
    /\ \/ /\ vaults = <<Vault(TenantId, "v1")>>
          /\ blockobjs = <<>>
       \/ /\ vaults = <<[Vault(TenantId, "v1") EXCEPT
                            !.blocks.items = DictPut(EmptyDict, "b1", Held(1))]>>
          /\ blockobjs = <<Block(TenantId, "v1", Some("b1"), None, Some(<<1, 2>>),
                                 "metadata")>>
    /\ project = Project(TenantId)
    /\ auth = [token |-> "t1", tenant |-> TenantId]
    /\ calls = 0
    /\ last = Returned("DeuceClient", NoArgs, <<>>, NoResponse, NoResult)

NextWalk == WalkStep

\* the caller's loop goes on while it can
SpecWalk == InitWalk /\ [][NextWalk]_vars /\ WF_vars(NextWalk)

Next ==
    \/ Free(RenewToken)
    \/ \E v \in ValidVaultIds : Call(NewVault(v))
    \/ \E b \in {"b1"}, d \in {None} \cup {Some(c) : c \in Contents} : Call(NewBlock(b, d))
    \/ \E s \in ValidStorageIds : Call(NewStorageBlock(s))
    \/ \E v \in 1..Len(vaults), b \in BlockArgs : Call(BlocksAdd(v, b))
    \/ \E v \in 1..Len(vaults), b \in BlockArgs : Call(StorageBlocksAdd(v, b))
    \/ \E v \in 1..Len(vaults), f \in ValidFileIds, b \in {"b2"}, o \in Offsets :
          Call(FileAssignBlock(v, f, b, o))
    \/ \E n \in VaultNames, res \in Answers({201, 500}) : Call(CreateVault(n, res))
    \/ \E n \in VaultNames, res \in Answers({204, 404, 500}) : Call(GetVault(n, res))
    \/ \E a \in VaultArgs, res \in Answers({204, 404, 500}) : Call(VaultExists(a, res))
    \/ \E x \in VaultInputs(Answers({204, 500})) : Call(DeleteVault(x[1], x[2]))
    \/ \E x \in VaultInputs(Answers({200, 500})), b \in StatisticsBodies :
          Call(GetVaultStatistics(x[1], b, x[2]))
    \/ \E p \in ProjectArgs, m \in {None, Some("v!")}, res \in VaultListAnswers :
          Call(ListVaults(p, m, res))
    \/ \E x \in ListingInputs("b1", "b!", BlockListAnswers) :
          Call(GetBlockList(x[1], x[2][1], x[2][2], x[3]))
    \/ \E x \in VaultBlockInputs(BlockAnswers({204, 500})) :
          Call(HeadBlock(x[1], x[2], x[3]))
    \/ \E x \in VaultBlockInputs(Answers({201, 500})) :
          Call(UploadBlock(x[1], x[2], x[3]))
    \/ \E x \in VaultInputs(Answers({201, 500})),
          ids \in {<<"b1">>, <<"b2">>, <<"b!">>, <<"b1", "b2">>} :
          Call(UploadBlocks(x[1], ids, x[2]))
    \/ \E x \in VaultBlockInputs(Answers({204, 500})) :
          Call(DeleteBlock(x[1], x[2], x[3]))
    \/ \E a \in VaultObjs \cup {Name("v1")}, ids \in {<<"b1">>, <<"b2", "b1">>, <<"b!">>},
          rs \in DeleteAnswers :
          Call(DeleteBlocks(a, ids, rs))
    \/ \E x \in VaultBlockInputs(BlockAnswers({200, 500})) :
          Call(DownloadBlock(x[1], x[2], x[3]))
    \/ \E x \in VaultInputs(CreateFileAnswers) : Call(CreateFile(x[1], x[2]))
    \/ \E x \in VaultFileInputs(Answers({204, 500})) :
          Call(DeleteFile(x[1], x[2], x[3]))
    \/ \E x \in VaultFileInputs(Answers({200, 500})), s \in BOOLEAN :
          Call(DownloadFile(x[1], x[2], x[3], s))
    \/ \E x \in VaultFileInputs(Answers({200, 204, 500})) :
          Call(FinalizeFile(x[1], x[2], x[3]))
    \/ \E x \in VaultFileInputs(AssignAnswers), p \in PairLists({"b1"}) :
          Call(AssignBlocksToFile(x[1], x[2], p, x[3]))
    \/ \E x \in ListingInputs("b1", "b!", FileListAnswers), f \in FileNames :
          Call(GetFileBlockList(x[1], f, x[2][1], x[2][2], x[3]))
    \/ \E x \in VaultBlockInputs(BlockAnswers({200, 500})) :
          Call(DownloadBlockStorageData(x[1], x[2], x[3]))
    \/ \E x \in VaultBlockInputs(Answers({204, 500})) :
          Call(DeleteBlockStorage(x[1], x[2], x[3]))
    \/ \E x \in ListingInputs("s1", "s!", StorageListAnswers) :
          Call(GetBlockStorageList(x[1], x[2][1], x[2][2], x[3]))
    \/ \E x \in VaultBlockInputs(BlockAnswers({204, 500})) :
          Call(HeadBlockStorage(x[1], x[2], x[3]))

Spec == Init /\ [][Next]_vars

(***************************************************************************)
(* Properties.                                                             *)
(***************************************************************************)

\* The status codes on which an operation takes its success branch
\* (VaultExists answers both 204 and 404; DeleteBlocks raises on none)
SuccessCodes(op) ==
    CASE op \in {"ListVaults", "GetVaultStatistics", "GetBlockList", "DownloadBlock",
                 "DownloadFile", "AssignBlocksToFile", "GetFileBlockList",
                 "DownloadBlockStorageData", "GetBlockStorageList"} -> {200}
      [] op \in {"CreateVault", "UploadBlock", "UploadBlocks", "CreateFile"} -> {201}
      [] op \in {"DeleteVault", "HeadBlock", "DeleteBlock", "DeleteFile",
                 "DeleteBlockStorage", "HeadBlockStorage", "GetVault"} -> {204}
      [] op = "VaultExists" -> {204, 404}
      [] op = "FinalizeFile" -> {200, 204}
      [] OTHER -> StatusCodes

\* The call l was answered with a status that is not a success code of its
\* operation
FailedCall(l) ==
    /\ l.reqs # <<>>
    /\ l.resp.status_code \notin SuccessCodes(l.op)

\* C1: once a Vault's status is `deleted`, no operation of the client gives
\* it another status.
C1_DeletedIsTerminal ==
    [][\A i \in 1..Len(vaults) :
          vaults[i].status = "deleted" => vaults'[i].status = "deleted"]_vars

\* C2: a Vault changes status only by unknown -> created (CreateVault, 201),
\* unknown or created -> valid or invalid (VaultExists, 204 or 404) and
\* valid -> deleted (DeleteVault, 204).
C2_OnlyDeclaredTransitions ==
    [][\A i \in 1..Len(vaults) :
          LET old == vaults[i].status
              new == vaults'[i].status
              code == last'.resp.status_code
          IN new # old =>
               \/ old = "unknown" /\ new = "created"
                    /\ last'.op = "CreateVault" /\ code = 201
               \/ old \in {"unknown", "created"} /\ last'.op = "VaultExists"
                    /\ \/ new = "valid" /\ code = 204
                       \/ new = "invalid" /\ code = 404
               \/ old = "valid" /\ new = "deleted"
                    /\ last'.op = "DeleteVault" /\ code = 204]_vars

\* C3: VaultExists on a Vault is decided by the response status alone: 204
\* makes the Vault valid and returns true, 404 makes it invalid and returns
\* false, any other status raises and keeps the status; a VaultExists that
\* directly follows a VaultExists on the same Vault with the same response
\* leaves the same status and ends the same way.
C3_VaultExistsByResponse ==
    [][\A i \in 1..Len(vaults) :
          (last'.op = "VaultExists" /\ last'.args.vault = Inst(i)) =>
             LET code == last'.resp.status_code
             IN /\ code = 204 => /\ vaults'[i].status = "valid"
                                 /\ last'.outcome = "return"
                                 /\ last'.result = BoolResult(TRUE)
                /\ code = 404 => /\ vaults'[i].status = "invalid"
                                 /\ last'.outcome = "return"
                                 /\ last'.result = BoolResult(FALSE)
                /\ code \notin {204, 404} =>
                                 /\ vaults'[i].status = vaults[i].status
                                 /\ last'.outcome = "RuntimeError"
                                 /\ last'.result = NoResult
                /\ (last.op = "VaultExists" /\ last.args.vault = Inst(i)
                      /\ last.resp = last'.resp) =>
                                 /\ vaults'[i].status = vaults[i].status
                                 /\ last'.outcome = last.outcome
                                 /\ last'.result = last.result]_vars

\* a VaultExists on a Vault was answered 404: the Vault is invalid and the
\* call returned false
C3_Witness ==
    /\ last.op = "VaultExists"
    /\ last.args.vault.inst > 0
    /\ last.resp.status_code = 404
    /\ last.result = BoolResult(FALSE)
    /\ vaults[last.args.vault.inst].status = "invalid"

\* C4: a CreateVault that was answered returns a new Vault of the tenant's
\* project, named as requested and of status created, exactly when the
\* answer is 201, and raises without making a Vault otherwise; a VaultExists
\* answered 204 on the Vault a CreateVault just returned makes it valid.
C4_CreateVaultThenExists ==
    [][/\ (last'.op = "CreateVault" /\ last'.reqs # <<>>) =>
            IF last'.resp.status_code = 201
            THEN /\ last'.outcome = "return"
                 /\ last'.result = VaultResult(Len(vaults) + 1)
                 /\ Len(vaults') = Len(vaults) + 1
                 /\ vaults'[Len(vaults')].project_id = auth.tenant
                 /\ vaults'[Len(vaults')].vault_id = last'.args.vault.name
                 /\ vaults'[Len(vaults')].status = "created"
                 /\ \A i \in 1..Len(vaults) : vaults'[i] = vaults[i]
            ELSE /\ last'.outcome = "RuntimeError"
                 /\ last'.result = NoResult
                 /\ vaults' = vaults
       /\ (/\ last.op = "CreateVault" /\ last.outcome = "return"
           /\ last'.op = "VaultExists"
           /\ last'.args.vault = Inst(last.result.ref)
           /\ last'.resp.status_code = 204) =>
            /\ vaults[last.result.ref].status = "created"
            /\ vaults'[last.result.ref].status = "valid"]_vars

\* a CreateVault answered 201 returned a Vault of status created
C4_Witness ==
    /\ last.op = "CreateVault"
    /\ last.resp.status_code = 201
    /\ last.result.kind = "vault"
    /\ vaults[last.result.ref].status = "created"
    /\ vaults[last.result.ref].vault_id = last.args.vault.name

\* C5: a call answered with a status that is not a success code of its
\* operation raises the one failure that carries the status code and the
\* response text (DeleteBlocks, which keeps its failures per item, and
\* GetVault, which is made of a VaultExists, aside).
C5_UniformFailure ==
    (FailedCall(last) /\ last.op \notin {"DeleteBlocks", "GetVault"}) =>
        /\ last.outcome = "RuntimeError"
        /\ last.err.code = Some(last.resp.status_code)
        /\ last.err.text = Some(last.resp.text)

\* C6: a call answered with a status that is not a success code of its
\* operation leaves every Vault, the Project and every Block as they were.
C6_FailureChangesNothing ==
    [][FailedCall(last') =>
          /\ vaults' = vaults
          /\ project' = project
          /\ blockobjs' = blockobjs]_vars

\* a GetBlockList on a Vault that holds blocks was answered 500
C6_Witness ==
    /\ last.op = "GetBlockList"
    /\ last.resp.status_code = 500
    /\ last.outcome = "RuntimeError"
    /\ DOMAIN vaults[last.args.vault.inst].blocks.items # {}

\* C7: no request is sent for a call one of whose arguments fails its
\* validation; of the vault argument: a request is sent only for a Vault
\* object or, where a vault id is taken, a valid vault id.
C7_NoRequestOnInvalidArgument ==
    last.reqs # <<>> =>
        \/ last.args.vault = NoArg
        \/ last.args.vault.inst > 0
        \/ VaultIdRule(last.args.vault.name)

\* C8: no operation removes a Vault, or a key of a Vault's blocks,
\* storageblocks or files.
C8_NothingRemoved ==
    [][/\ Len(vaults) <= Len(vaults')
       /\ \A i \in 1..Len(vaults) :
             /\ DOMAIN vaults[i].blocks.items \subseteq DOMAIN vaults'[i].blocks.items
             /\ DOMAIN vaults[i].storageblocks.items
                  \subseteq DOMAIN vaults'[i].storageblocks.items
             /\ DOMAIN vaults[i].files \subseteq DOMAIN vaults'[i].files
       /\ DOMAIN project.items \subseteq DOMAIN project'.items]_vars

\* a DeleteBlock was answered 204 and the block is still in the Vault
C8_Witness ==
    /\ last.op = "DeleteBlock"
    /\ last.outcome = "return"
    /\ blockobjs[last.args.block.inst].block_id # None
    /\ blockobjs[last.args.block.inst].block_id[1]
         \in DOMAIN vaults[last.args.vault.inst].blocks.items

\* C9 as stated: no operation changes the block id or the storage id of a
\* Block.
C9_IdsNeverChange ==
    [][\A h \in 1..Len(blockobjs) :
          /\ blockobjs'[h].block_id = blockobjs[h].block_id
          /\ blockobjs'[h].storage_id = blockobjs[h].storage_id]_vars

\* C9: an operation changes neither id of a Block, but for HeadBlock, which
\* may change the storage id and never the block id, and HeadBlockStorage and
\* DownloadBlockStorageData, which may change the block id and never the
\* storage id.
C9_AddressingIdKept ==
    [][\A h \in 1..Len(blockobjs) :
          /\ last'.op \notin {"HeadBlockStorage", "DownloadBlockStorageData"} =>
                blockobjs'[h].block_id = blockobjs[h].block_id
          /\ last'.op # "HeadBlock" =>
                blockobjs'[h].storage_id = blockobjs[h].storage_id]_vars

\* a HeadBlock gave a Block its storage id and kept its block id
C9_Witness ==
    /\ last.op = "HeadBlock"
    /\ last.outcome = "return"
    /\ blockobjs[last.args.block.inst].block_id = Some("b1")
    /\ blockobjs[last.args.block.inst].storage_id = Some("s1")

\* C10: after a ListVaults, GetBlockList or GetBlockStorageList that was
\* answered 200 and returned, the marker of the project, of the Vault's
\* blocks or of its storageblocks is the value of the first marker parameter
\* of the continuation header, and null when the response has no such header.
C10_MarkerFromHeader ==
    (/\ last.op \in {"ListVaults", "GetBlockList", "GetBlockStorageList"}
     /\ last.resp.status_code = 200
     /\ last.outcome = "return") =>
        LET m == CASE last.op = "ListVaults" -> project.marker
                   [] last.op = "GetBlockList" ->
                        vaults[last.args.vault.inst].blocks.marker
                   [] last.op = "GetBlockStorageList" ->
                        vaults[last.args.vault.inst].storageblocks.marker
            h == last.resp.next_batch
        IN IF h = None THEN m = None
           ELSE /\ m # None
                /\ \E k \in 1..Len(h[1].query) :
                      /\ h[1].query[k] = <<"marker", m[1]>>
                      /\ \A j \in 1..(k - 1) : h[1].query[j][1] # "marker"

\* a GetBlockList answered 200 with a continuation header left the marker
\* of the header on the Vault's blocks
C10_Witness ==
    /\ last.op = "GetBlockList"
    /\ last.outcome = "return"
    /\ last.resp.next_batch # None
    /\ vaults[last.args.vault.inst].blocks.marker = Some("b2")

C12_ExplicitListChecks ==
    [][\A i \in 1..Len(vaults) :
          (/\ last'.op = "AssignBlocksToFile" /\ last'.args.vault = Inst(i)
           /\ FileIdRule(last'.args.file_id)
           /\ MetadataBlockIdOffsetIterableRuleNoneOkay(last'.args.pairs)
           /\ last'.args.pairs # None
           /\ last'.args.file_id \in DOMAIN vaults[i].files) =>
             LET offs == vaults[i].files[last'.args.file_id].offsets
                 ps == last'.args.pairs[1]
                 passes == /\ Len(ps) > 0
                           /\ \A k \in 1..Len(ps) : \E j \in 1..Len(offs) :
                                 offs[j] = <<Str(ps[k][2]), ps[k][1]>>
             IN IF passes THEN last'.reqs # <<>>
                ELSE /\ last'.reqs = <<>>
                     /\ last'.outcome \in {"KeyError", "ValueError"}
                     /\ Len(ps) = 0 => last'.outcome = "ValueError"
                     /\ last'.result = NoResult]_vars

\* an AssignBlocksToFile listing (b1, 0), (b2, 1) was refused for its second
\* pair on a file that records b1 at "0"
C12_Witness ==
    /\ last.op = "AssignBlocksToFile"
    /\ last.args.pairs = Some(<<<<"b1", JsonInt(0)>>, <<"b2", JsonInt(1)>>>>)
    /\ last.outcome \in {"KeyError", "ValueError"}
    /\ last.reqs = <<>>
    /\ last.args.file_id \in DOMAIN vaults[last.args.vault.inst].files
    /\ <<Str(JsonInt(0)), "b1">> \in
          {vaults[last.args.vault.inst].files[last.args.file_id].offsets[j] :
             j \in 1..Len(vaults[last.args.vault.inst].files[last.args.file_id].offsets)}

\* C13: an AssignBlocksToFile without a list, on a file of the Vault, raises
\* a value error and sends nothing when the file's offsets are empty, and
\* otherwise submits one (block_id, offset) pair per entry of the offsets,
\* none more; with a list, what it submits is the list, in its order.
C13_SubmittedPairs ==
    [][\A i \in 1..Len(vaults) :
          (/\ last'.op = "AssignBlocksToFile" /\ last'.args.vault = Inst(i)
           /\ FileIdRule(last'.args.file_id)
           /\ MetadataBlockIdOffsetIterableRuleNoneOkay(last'.args.pairs)
           /\ last'.args.file_id \in DOMAIN vaults[i].files) =>
             LET offs == vaults[i].files[last'.args.file_id].offsets
                 body == last'.reqs[1].body
             IN IF last'.args.pairs = None
                THEN IF Len(offs) = 0
                     THEN last'.reqs = <<>> /\ last'.outcome = "ValueError"
                     ELSE /\ Len(last'.reqs) = 1
                          /\ Len(body) = Len(offs)
                          /\ {body[k] : k \in 1..Len(body)}
                               = {<<offs[j][2], offs[j][1]>> : j \in 1..Len(offs)}
                ELSE last'.reqs # <<>> =>
                          /\ Len(last'.reqs) = 1
                          /\ body = last'.args.pairs[1]]_vars

\* an AssignBlocksToFile without a list submitted the two entries of the
\* file's offsets
C13_Witness ==
    /\ last.op = "AssignBlocksToFile"
    /\ last.args.pairs = None
    /\ last.reqs # <<>>
    /\ Len(last.reqs[1].body) = 2
    /\ Len(vaults[last.args.vault.inst].files[last.args.file_id].offsets) = 2

\* C14: an AssignBlocksToFile, FinalizeFile or GetFileBlockList whose file id
\* is not in the Vault's files, and an AssignBlocksToFile whose list is
\* empty, names an offset the file does not record or a block the file
\* records otherwise, or that has no list while the file has no offsets,
\* raises a key or value error, sends no request and changes nothing.
C14_PreconditionsBeforeRequest ==
    [][\A i \in 1..Len(vaults) :
          LET a == last'.args
              known == a.file_id \in DOMAIN vaults[i].files
              offs == vaults[i].files[a.file_id].offsets
              unmet == IF a.pairs = None THEN Len(offs) = 0
                       ELSE \/ Len(a.pairs[1]) = 0
                            \/ \E k \in 1..Len(a.pairs[1]) :
                                  \A j \in 1..Len(offs) :
                                     offs[j] # <<Str(a.pairs[1][k][2]), a.pairs[1][k][1]>>
          IN (/\ last'.op \in {"AssignBlocksToFile", "FinalizeFile", "GetFileBlockList"}
              /\ a.vault = Inst(i)
              /\ FileIdRule(a.file_id)
              /\ MetadataBlockIdOffsetIterableRuleNoneOkay(a.pairs)
              /\ MetadataBlockIdRuleNoneOkay(a.marker)
              /\ LimitRuleNoneOkay(a.limit)
              /\ \/ ~known
                 \/ last'.op = "AssignBlocksToFile" /\ unmet) =>
                /\ last'.reqs = <<>>
                /\ last'.outcome \in {"KeyError", "ValueError"}
                /\ ~known => last'.outcome = "KeyError"
                /\ vaults' = vaults
                /\ project' = project
                /\ blockobjs' = blockobjs]_vars

\* a FinalizeFile on a Vault without the file raised a key error and sent
\* nothing
C14_Witness ==
    /\ last.op = "FinalizeFile"
    /\ last.args.vault.inst > 0
    /\ last.args.file_id = "f1"
    /\ last.args.file_id \notin DOMAIN vaults[last.args.vault.inst].files
    /\ last.outcome = "KeyError"
    /\ last.reqs = <<>>

\* C15: an AssignBlocksToFile that was answered 200 returns the block ids
\* of the response body in the body's order and changes nothing.
C15_AssignReturnsStillNeeded ==
    [][(last'.op = "AssignBlocksToFile" /\ last'.reqs # <<>>
          /\ last'.resp.status_code = 200) =>
          /\ last'.outcome = "return"
          /\ last'.result = IdsResult(last'.resp.body)
          /\ vaults' = vaults
          /\ project' = project
          /\ blockobjs' = blockobjs]_vars

\* an AssignBlocksToFile listing (b1, 0) on a file that records b1 at "0"
\* returned the ids b2, b1 of the response
C15_Witness ==
    /\ last.op = "AssignBlocksToFile"
    /\ last.args.pairs = Some(<<<<"b1", JsonInt(0)>>>>)
    /\ last.outcome = "return"
    /\ last.result.ids = <<"b2", "b1">>
    /\ vaults[last.args.vault.inst].files[last.args.file_id].offsets
         = <<<<Str(JsonInt(0)), "b1">>>>

\* C16: a DeleteBlocks of a Vault and a list of valid block ids returns,
\* for every id of the list in the list's order, whether the id was in the
\* Vault's blocks and its deletion was answered 204; it sends one DELETE
\* for every listed id that is in the Vault's blocks, whatever the answers
\* to the earlier ones, and raises nothing.
C16_DeleteBlocksPerItem ==
    [][\A i \in 1..Len(vaults) :
          (/\ last'.op = "DeleteBlocks" /\ last'.args.vault = Inst(i)
           /\ MetadataBlockIdIterableRule(last'.args.ids)) =>
             LET ids == last'.args.ids
                 held(k) == ids[k] \in DOMAIN vaults[i].blocks.items
             IN /\ last'.outcome = "return"
                /\ last'.result.ids = ids
                /\ Len(last'.result.flags) = Len(ids)
                /\ \A k \in 1..Len(ids) :
                      last'.result.flags[k]
                        = (held(k) /\ last'.resp.each[k].status_code = 204)
                /\ Len(last'.reqs) = Cardinality({k \in 1..Len(ids) : held(k)})
                /\ \A r \in 1..Len(last'.reqs) : last'.reqs[r].verb = "DELETE"]_vars

\* a DeleteBlocks of two blocks of the Vault was answered 500 for the first
\* and 204 for the second: both requests were sent, the second succeeded
C16_Witness ==
    /\ last.op = "DeleteBlocks"
    /\ last.outcome = "return"
    /\ Len(last.args.ids) = 2
    /\ last.result.flags = <<FALSE, TRUE>>
    /\ Len(last.reqs) = 2
    /\ last.resp.each[1].status_code = 500

SameUnder(d, e, k) ==
    /\ (k \in DOMAIN d) = (k \in DOMAIN e)
    /\ k \in DOMAIN d => e[k] = d[k]

\* the first item of an update that Blocks.__setitem__ refuses, 0 if none
FirstRefused(items) ==
    LET bad == {n \in 1..Len(items) :
                  items[n][2].inst = 0 \/ ~MetadataBlockIdRule(items[n][1])}
    IN IF bad = {} THEN 0 ELSE CHOOSE n \in bad : \A m \in bad : n <= m

HeaderInteger(h) ==
    CASE h = <<>> -> 0 [] h = <<"7">> -> 7 [] h = <<"2">> -> 2 [] h = <<"4", "8">> -> 48

\* C19: a HeadBlock answered 204 returns, and the Block then has ref_count,
\* ref_modified and block_size at the integers of the X-Block-Reference-Count,
\* X-Ref-Modified and X-Block-Size headers (0 for an empty header),
\* storage_id at the X-Storage-ID header (null for the text None),
\* block_orphaned false whatever the response says, and the block id and
\* the data it had.
C19_HeadBlockPopulates ==
    [][(last'.op = "HeadBlock" /\ last'.reqs # <<>> /\ last'.resp.status_code = 204) =>
          /\ last'.outcome = "return"
          /\ LET i == last'.args.block.inst
                 h == last'.resp.headers
                 b == blockobjs'[i]
             IN /\ b.ref_count = Some(HeaderInteger(h.ref_count))
                /\ b.ref_modified = Some(HeaderInteger(h.ref_modified))
                /\ b.block_size = Some(HeaderInteger(h.block_size))
                /\ b.storage_id = (IF h.storage_id = "None" THEN None
                                   ELSE Some(h.storage_id))
                /\ b.block_orphaned = Some(FALSE)
                /\ b.block_id = blockobjs[i].block_id
                /\ b.data = blockobjs[i].data
                /\ \A j \in 1..Len(blockobjs) : j # i => blockobjs'[j] = blockobjs[j]
                /\ Len(blockobjs') = Len(blockobjs)]_vars

\* a HeadBlock of a Block with data was answered 204 with a size of 48, a
\* storage id and an orphaned header of True
C19_Witness ==
    /\ last.op = "HeadBlock"
    /\ last.outcome = "return"
    /\ last.resp.headers.block_size = <<"4", "8">>
    /\ blockobjs[last.args.block.inst].block_size = Some(48)
    /\ blockobjs[last.args.block.inst].storage_id = Some("s1")
    /\ blockobjs[last.args.block.inst].data # None

\* a HeadBlock was answered 204 with empty headers and the text None
C19_WitnessEmpty ==
    /\ last.op = "HeadBlock"
    /\ last.outcome = "return"
    /\ last.resp.headers.ref_count = <<>>
    /\ last.resp.headers.orphaned = "True"
    /\ blockobjs[last.args.block.inst].ref_count = Some(0)
    /\ blockobjs[last.args.block.inst].storage_id = None
    /\ blockobjs[last.args.block.inst].block_orphaned = Some(FALSE)

\* the listings, the path each lists and the text each puts between marker
\* and limit
ListingOps == {"GetBlockList", "GetFileBlockList", "GetBlockStorageList"}
ListedPath(l) ==
    LET vault_id == vaults[l.args.vault.inst].vault_id
    IN CASE l.op = "GetBlockList" -> <<"/v1.0", "/vaults", "/", vault_id, "/blocks">>
         [] l.op = "GetFileBlockList" ->
              <<"/v1.0", "/vaults", "/", vault_id, "/files", "/", l.args.file_id, "/blocks">>
         [] l.op = "GetBlockStorageList" ->
              <<"/v1.0", "/vaults", "/", vault_id, "/storage", "/blocks">>
Separator(op) == IF op = "GetBlockStorageList" THEN "&" ELSE ","
LimitText(n) == CASE n = 1 -> "1"

\* C20: the path of a listing request carries no query when neither marker
\* nor limit is given; a marker alone gives ?marker=<m>, a limit alone
\* ?limit=<n>, and both give ?marker=<m>, the separator, limit=<n>: the
\* marker before the limit, the separator a comma in GetBlockList and
\* GetFileBlockList and an ampersand in GetBlockStorageList.
C20_ListingQuery ==
    [][(last'.op \in ListingOps /\ last'.reqs # <<>>) =>
          LET l == last'
              m == l.args.marker
              n == l.args.limit
              query == l.reqs[1].uri
          IN /\ Len(l.reqs) = 1
             /\ (m = None /\ n = None) => query = ListedPath(l)
             /\ (m # None /\ n = None) =>
                   query = ListedPath(l) \o <<"?", "marker=", m[1]>>
             /\ (m = None /\ n # None) =>
                   query = ListedPath(l) \o <<"?", "limit=", LimitText(n[1])>>
             /\ (m # None /\ n # None) =>
                   query = ListedPath(l) \o <<"?", "marker=", m[1], Separator(l.op),
                                              "limit=", LimitText(n[1])>>]_vars

\* a GetBlockStorageList was sent with a marker and a limit
C20_Witness ==
    /\ last.op = "GetBlockStorageList"
    /\ last.reqs # <<>>
    /\ last.args.marker = Some("s1")
    /\ last.args.limit = Some(1)

\* a GetFileBlockList of a file was sent with a marker and a limit, a
\* GetBlockList with a limit alone
C20_WitnessComma ==
    /\ last.op = "GetFileBlockList"
    /\ last.reqs # <<>>
    /\ last.args.marker = Some("b1")
    /\ last.args.limit = Some(1)
C20_WitnessLimitAlone ==
    /\ last.op = "GetBlockList"
    /\ last.reqs # <<>>
    /\ last.args.marker = None
    /\ last.args.limit = Some(1)

\* C21: every key of the offsets of every File of every vault is a text (the
\* string form of a byte offset), whatever JSON type the offsets of a file
\* block listing had.
C21_OffsetKeysAreStrings ==
    \A v \in 1..Len(vaults) : \A f \in DOMAIN vaults[v].files :
        \A k \in OKeys(vaults[v].files[f].offsets) : k.t = "str"

\* the operations that require the file id to be a key of vault.files
FileChecked == {"AssignBlocksToFile", "FinalizeFile", "GetFileBlockList"}
\* the arguments of a call of one of them pass @validate
FileCallValidated(l) ==
    /\ l.args.vault.inst > 0
    /\ FileIdRule(l.args.file_id)
    /\ MetadataBlockIdRuleNoneOkay(l.args.marker)
    /\ LimitRuleNoneOkay(l.args.limit)
    /\ MetadataBlockIdOffsetIterableRuleNoneOkay(l.args.pairs)

\* C22: the files of a vault only grow, and only by a CreateFile answered
\* 201, which adds a new File under the id of the x-file-id header and
\* returns that id; a CreateFile answered otherwise raises and adds nothing.
\* AssignBlocksToFile, FinalizeFile and GetFileBlockList of a file id that is
\* no key of vault.files raise KeyError before any request; of a file id that
\* is a key they go on (to the request, or for AssignBlocksToFile to its
\* checks of the offsets).
C22_FileInVault ==
    [][\A v \in 1..Len(vaults) :
          LET l == last'
              before == DOMAIN vaults[v].files
              after == DOMAIN vaults'[v].files
              mine == l.args.vault = Inst(v)
          IN /\ before \subseteq after
             /\ after # before => mine /\ l.op = "CreateFile" /\ l.resp.status_code = 201
             /\ (mine /\ l.op = "CreateFile" /\ l.resp.status_code = 201) =>
                   /\ l.outcome = "return"
                   /\ l.result = FileIdResult(l.resp.file_id)
                   /\ after = before \cup {l.resp.file_id}
                   /\ vaults'[v].files[l.resp.file_id].file_id = l.resp.file_id
                   /\ vaults'[v].files[l.resp.file_id].vault_id = vaults[v].vault_id
                   /\ vaults'[v].files[l.resp.file_id].offsets = <<>>
             /\ (mine /\ l.op = "CreateFile" /\ l.resp.status_code # 201) =>
                   /\ l.outcome = "RuntimeError"
                   /\ vaults'[v] = vaults[v]
             /\ (mine /\ l.op \in FileChecked /\ FileCallValidated(l)) =>
                   IF l.args.file_id \notin before
                   THEN l.outcome = "KeyError" /\ l.reqs = <<>>
                   ELSE \/ l.reqs # <<>>
                        \/ /\ l.op = "AssignBlocksToFile"
                           /\ \/ l.outcome = "ValueError"
                              \/ /\ l.outcome = "KeyError"
                                 /\ \E n \in 1..Len(l.args.pairs[1]) :
                                       Str(l.args.pairs[1][n][2])
                                         \notin OKeys(vaults[v].files[l.args.file_id].offsets)]_vars

\* a FinalizeFile of the File a CreateFile added (no offsets yet) was sent
C22_Witness ==
    /\ last.op = "FinalizeFile"
    /\ last.reqs # <<>>
    /\ last.args.vault.inst > 0
    /\ vaults[last.args.vault.inst].files[last.args.file_id].offsets = <<>>

\* a FinalizeFile of a file id never added to the vault was refused
C22_WitnessNeverAdded ==
    /\ last.op = "FinalizeFile"
    /\ last.outcome = "KeyError"
    /\ last.reqs = <<>>
    /\ last.args.file_id \notin DOMAIN vaults[last.args.vault.inst].files

\* the pages of the server's list: their number, and the n-th of them
PageCount ==
    IF server.ids = <<>> THEN 1
    ELSE (Len(server.ids) + server.page - 1) \div server.page
PageNumber(n) ==
    LET first == (n - 1) * server.page + 1
        end == n * server.page
    IN SubSeq(server.ids, first, IF end < Len(server.ids) THEN end ELSE Len(server.ids))

\* C23: each turn of the walk requests the next page in order, with the
\* marker the page before it left in vault.blocks (none at the first turn).
C23_PagesInOrder ==
    [][/\ last'.op = "GetBlockList"
       /\ last'.outcome = "return"
       /\ Len(last'.reqs) = 1
       /\ calls' = calls + 1
       /\ calls' <= PageCount
       /\ last'.args.marker = (IF calls = 0 THEN None ELSE vaults[1].blocks.marker)
       /\ last'.resp.body = PageNumber(calls')
       /\ (vaults'[1].blocks.marker = None) = (calls' = PageCount)
       /\ \A n \in 1..Len(last'.resp.body) :
             last'.resp.body[n] \in DOMAIN vaults'[1].blocks.items
       /\ DOMAIN vaults[1].blocks.items \subseteq DOMAIN vaults'[1].blocks.items]_vars

\* C23: the walk of a paged block list terminates, after exactly one request
\* a page and the pages in order, with every id of every page a key of
\* vault.blocks.
C23_WalkTerminates ==
    /\ <>[](/\ WalkDone
            /\ calls = PageCount
            /\ \A n \in 1..Len(server.ids) : server.ids[n] \in DOMAIN vaults[1].blocks.items)
    /\ C23_PagesInOrder

\* a walk of three pages is over
C23_Witness ==
    /\ WalkDone
    /\ calls = 3
    /\ server.page = 1
    /\ {"b1", "b2", "b3"} \subseteq DOMAIN vaults[1].blocks.items

\* C24: a GetBlockList that returns leaves the Block held under every listed
\* id that was a key of vault.blocks already as it was: the same object, with
\* the data and the metadata it had.
C24_ListingKeepsHeldBlocks ==
    [][(last'.op = "GetBlockList" /\ last'.outcome = "return") =>
          LET v == last'.args.vault.inst
              body == last'.resp.body
          IN \A n \in 1..Len(body) :
                body[n] \in DOMAIN vaults[v].blocks.items =>
                   vaults'[v].blocks.items[body[n]] = vaults[v].blocks.items[body[n]]]_vars

\* C25: after a ListVaults answered 200 every listed vault id is a key of the
\* project; an id that was no key is the key of a new Vault with that id, the
\* project id of the project and the status valid; a Vault that was a key is
\* the same object as before, and no Vault that existed has changed, whatever
\* its status.
C25_ListVaultsAddsOnly ==
    [][(last'.op = "ListVaults" /\ last'.reqs # <<>> /\ last'.resp.status_code = 200) =>
          LET body == last'.resp.body
          IN /\ \A n \in 1..Len(body) :
                   /\ body[n] \in DOMAIN project'.items
                   /\ body[n] \notin DOMAIN project.items =>
                        LET i == project'.items[body[n]]
                        IN /\ i > Len(vaults)
                           /\ vaults'[i].vault_id = body[n]
                           /\ vaults'[i].project_id = project.project_id
                           /\ vaults'[i].status = "valid"
             /\ \A id \in DOMAIN project.items : project'.items[id] = project.items[id]
             /\ \A i \in 1..Len(vaults) : vaults'[i] = vaults[i]
             /\ DOMAIN project'.items =
                   DOMAIN project.items \cup {body[n] : n \in 1..Len(body)}]_vars

\* a ListVaults that listed a vault of the project returned, and the vault is
\* still deleted
C25_Witness ==
    /\ last.op = "ListVaults"
    /\ last.outcome = "return"
    /\ last.resp.body = <<"v1">>
    /\ "v1" \in DOMAIN project.items
    /\ vaults[project.items["v1"]].status = "deleted"

\* the same of a vault that CreateVault returned and the caller put into the
\* project
C25_WitnessCreated ==
    /\ last.op = "ListVaults"
    /\ last.outcome = "return"
    /\ last.resp.body = <<"v1">>
    /\ "v1" \in DOMAIN project.items
    /\ vaults[project.items["v1"]].status = "created"

\* the data of the Block a collection holds under an id
HeldData(coll, id) ==
    IF coll.items[id].ref > 0 THEN blockobjs[coll.items[id].ref].data
    ELSE coll.items[id].obj[1].data

\* C26: an UploadBlocks of valid arguments sends nothing and raises KeyError
\* when one of the ids is no key of vault.blocks; otherwise it sends exactly
\* one request, a POST whose body maps every requested id to the data of the
\* Block held under it, returns true when the answer is 201 and raises
\* otherwise.  It changes no Vault, Block or Project in any case.
C26_UploadBlocksOneRequest ==
    [][(/\ last'.op = "UploadBlocks"
        /\ last'.args.vault.inst > 0
        /\ MetadataBlockIdIterableRule(last'.args.ids)) =>
          LET l == last'
              coll == vaults[l.args.vault.inst].blocks
              ids == {l.args.ids[n] : n \in 1..Len(l.args.ids)}
          IN /\ vaults' = vaults /\ blockobjs' = blockobjs /\ project' = project
             /\ IF ids \subseteq DOMAIN coll.items
                THEN /\ Len(l.reqs) = 1
                     /\ l.reqs[1].verb = "POST"
                     /\ DOMAIN l.reqs[1].body = ids
                     /\ \A id \in ids : l.reqs[1].body[id] = HeldData(coll, id)
                     /\ IF l.resp.status_code = 201
                        THEN l.outcome = "return" /\ l.result = BoolResult(TRUE)
                        ELSE l.outcome = "RuntimeError"
                ELSE l.reqs = <<>> /\ l.outcome = "KeyError"]_vars

\* a batch of two blocks was uploaded in one request
C26_Witness ==
    /\ last.op = "UploadBlocks"
    /\ last.args.ids = <<"b1", "b2">>
    /\ last.outcome = "return"
    /\ Len(last.reqs) = 1

\* a batch of a block the vault holds and one it does not was refused
C26_WitnessPartial ==
    /\ last.op = "UploadBlocks"
    /\ last.args.ids = <<"b1", "b2">>
    /\ last.outcome = "KeyError"
    /\ "b1" \in DOMAIN vaults[last.args.vault.inst].blocks.items

\* C27: every request of every call carries the token and the tenant id the
\* Authenticator has at the time of the call, also after the token changed
\* between two calls, and also the requests of the operations that send a
\* header copy of their own.
C27_FreshToken ==
    [][last'.op # "Authenticator" =>
          \A n \in 1..Len(last'.reqs) :
             /\ last'.reqs[n].headers.token = auth.token
             /\ last'.reqs[n].headers.project_id = auth.tenant]_vars

\* a HeadBlock, which sends a header copy of its own, was sent after the
\* token had changed
C27_Witness ==
    /\ last.op = "HeadBlock"
    /\ last.reqs # <<>>
    /\ auth.token = "t2"
    /\ last.reqs[1].headers.token = "t2"
    /\ calls = 2

\* the first marker of the query of a continuation URL
FirstMarker(url) ==
    LET at == {n \in 1..Len(url.query) : url.query[n][1] = "marker"}
    IN url.query[CHOOSE n \in at : \A m \in at : n <= m][2]

C28_WitnessKept ==
    /\ last.op = "DeleteBlock"
    /\ last.outcome = "return"
    /\ vaults[last.args.vault.inst].blocks.marker = Some("b2")

\* C29: every key of vault.blocks is the block id of the Block held under it,
\* and every key of vault.storageblocks the storage id of the Block held
\* under it.
C29_KeysAreIds ==
    \A v \in 1..Len(vaults) :
        /\ \A k \in DOMAIN vaults[v].blocks.items :
              Deref(vaults[v].blocks.items[k]).block_id = Some(k)
        /\ \A k \in DOMAIN vaults[v].storageblocks.items :
              Deref(vaults[v].storageblocks.items[k]).storage_id = Some(k)

\* a Block the vault holds under b1, whose storage id a HeadBlock reported,
\* has lost its block id to a HeadBlockStorage answered with X-Block-ID None
C29_StaleKey ==
    /\ last.op = "HeadBlockStorage"
    /\ last.outcome = "return"
    /\ last.args.block.inst > 0
    /\ Len(vaults) > 0
    /\ "b1" \in DOMAIN vaults[1].blocks.items
    /\ vaults[1].blocks.items["b1"] = Held(last.args.block.inst)
    /\ blockobjs[last.args.block.inst].storage_id = Some("s1")
    /\ blockobjs[last.args.block.inst].block_id = None

\* C30 as stated: a Blocks.update that raises leaves the collection with
\* exactly the entries it held before the call.
C30_UpdateAllOrNothing ==
    [][(last'.op = "Blocks.update" /\ last'.outcome # "return") =>
          vaults'[last'.args.vault.inst].blocks
            = vaults[last'.args.vault.inst].blocks]_vars

\* C30: a Blocks.update sets its items one by one in the order of the
\* mapping.  It raises at the first item that fails validation (a value that
\* is no Block: type error; a Block under a key outside the block id grammar:
\* the error of the id rule); the items before that one are then held under
\* their keys, that item and those after it have stored nothing, and no
\* other key has changed.  Without such an item it returns and every item is
\* held under its key.
C30_UpdateStopsAtFirstRefused ==
    [][last'.op = "Blocks.update" =>
          LET items == last'.args.items
              before == vaults[last'.args.vault.inst].blocks.items
              after == vaults'[last'.args.vault.inst].blocks.items
              n == FirstRefused(items)
              stored == IF n = 0 THEN 1..Len(items) ELSE 1..(n - 1)
          IN /\ last'.outcome = (IF n = 0 THEN "return"
                                 ELSE IF items[n][2].inst = 0 THEN "TypeError"
                                 ELSE "InvalidBlocks")
             /\ \A m \in stored :
                   /\ items[m][1] \in DOMAIN after
                   /\ after[items[m][1]] = Held(items[m][2].inst)
             /\ \A m \in (1..Len(items)) \ stored : SameUnder(before, after, items[m][1])
             /\ \A k \in (DOMAIN before \cup DOMAIN after)
                           \ {items[m][1] : m \in 1..Len(items)} :
                   SameUnder(before, after, k)]_vars

\* an update of a Block under b1 and a text under b2 raised, and the Block is
\* held under b1
C30_Witness ==
    /\ last.op = "Blocks.update"
    /\ last.outcome = "TypeError"
    /\ Len(last.args.items) = 2
    /\ last.args.items[1][1] = "b1"
    /\ last.args.items[1][2].inst > 0
    /\ last.args.items[2] = <<"b2", Name("b1")>>
    /\ DOMAIN vaults[last.args.vault.inst].blocks.items = {"b1"}
    /\ vaults[last.args.vault.inst].blocks.items["b1"] = Held(last.args.items[1][2].inst)

\* the listings that keep a collection, and the keys and the marker of the
\* collection a call l lists into, in the vaults vs and the project p
CollectionListings == {"ListVaults", "GetBlockList", "GetBlockStorageList"}
ListedInto(l, vs, p) ==
    CASE l.op = "ListVaults" ->
            [keys |-> DOMAIN p.items, marker |-> p.marker]
      [] l.op = "GetBlockList" ->
            [keys |-> DOMAIN vs[l.args.vault.inst].blocks.items,
             marker |-> vs[l.args.vault.inst].blocks.marker]
      [] l.op = "GetBlockStorageList" ->
            [keys |-> DOMAIN vs[l.args.vault.inst].storageblocks.items,
             marker |-> vs[l.args.vault.inst].storageblocks.marker]

\* a page that was applied: the listed ids are keys, and the marker is the
\* one of the continuation header (null without a header)
PageApplied(l, before, after) ==
    /\ after.keys = before.keys \cup {l.resp.body[n] : n \in 1..Len(l.resp.body)}
    /\ after.marker = IF l.resp.next_batch = None THEN None
                      ELSE Some(FirstMarker(l.resp.next_batch[1]))

\* a listing answered 200 that returned applied its page
ListingReturnApplies ==
    [][(/\ last'.op \in CollectionListings
        /\ last'.reqs # <<>>
        /\ last'.resp.status_code = 200
        /\ last'.outcome = "return") =>
          PageApplied(last', ListedInto(last', vaults, project),
                      ListedInto(last', vaults', project'))]_vars

\* C31: a listing page is applied atomically: a GetBlockList, a
\* GetBlockStorageList or a ListVaults answered 200 either returns, with the
\* listed ids upserted and the marker set or cleared as the continuation
\* header says, or raises, with the key set and the marker of the collection
\* exactly as before the call.
C31_ListingPageAtomic ==
    [][(/\ last'.op \in CollectionListings
        /\ last'.reqs # <<>>
        /\ last'.resp.status_code = 200) =>
          LET before == ListedInto(last', vaults, project)
              after == ListedInto(last', vaults', project')
          IN IF last'.outcome = "return"
             THEN PageApplied(last', before, after)
             ELSE after = before]_vars

\* a GetBlockList answered 200 raised over a continuation header without a
\* marker, and an id of the page is a key of the vault's blocks
C31_TornPage ==
    /\ last.op = "GetBlockList"
    /\ last.reqs # <<>>
    /\ last.resp.status_code = 200
    /\ last.outcome = "KeyError"
    /\ last.resp.next_batch # None
    /\ last.resp.body # <<>>
    /\ last.resp.body[1] \in DOMAIN vaults[last.args.vault.inst].blocks.items
    /\ vaults[last.args.vault.inst].blocks.marker = None

====
